---- MODULE Spec2Model ----
(***************************************************************************)
(* Payment-to-token reconciliation of hccc-backend: the Stripe payment     *)
(* routes (routes/payments.js), the reconciliation sweep                   *)
(* (scripts/fix-failed-payments.js), the scheduled-release job             *)
(* (services/cronService.js), the Payment and TokenBalance models and the  *)
(* time-restriction evaluator (utils/timeRestrictions.js).                 *)
(*                                                                         *)
(* Every request handler and job is a process whose steps are its awaited  *)
(* database and provider calls; the code between two awaits runs           *)
(* atomically with the call that ends it.  Documents are loaded into a     *)
(* local copy and written back by mongoose's save(), which sends only the  *)
(* paths that were modified on the copy.                                   *)
(*                                                                         *)
(* Time is counted in minutes of Texas wall-clock time since midnight of   *)
(* day 0.  Token amounts are JavaScript Numbers; they are counted in       *)
(* halves of a token, so that an integer amount is an even count.          *)
(* Not modelled: e-mail delivery, payment method and receipt URL, the      *)
(* charge.succeeded and charge.dispute.created webhooks (they write only   *)
(* receipt and dispute metadata) and users other than the fixed one        *)
(* below.                                                                  *)
(*                                                                         *)
(* Specifications: Spec (every operation on one purchase, handlers         *)
(* interleaving), SpecSeq (the same, one handler at a time, the clock      *)
(* running), SpecEvents (one purchase and the events that report its       *)
(* success), SpecCreate (a purchase started repeatedly), SpecCredit        *)
(* (several purchases credited next to an adjustment), SpecTime (the       *)
(* evaluator alone), SpecRelease, SpecLive and SpecRetry (the cron jobs),  *)
(* SpecFault and SpecSweep (calls that fail), SpecNotify (notifications),  *)
(* SpecMap (the status tables alone), SpecWebhook (the PayPal variant of   *)
(* the routes and requests to the webhook routes that are not verified),   *)
(* SpecTokens (the balance page, GET /auth/me/tokens), SpecValidate        *)
(* (purchase requests with any body), SpecCleanup (the cleanup of unpaid   *)
(* records) and SpecCron (CronService.init called at any time).            *)
(***************************************************************************)
EXTENDS Integers, Sequences, FiniteSets, TLC

\* ---------------------------------------------------------------- bounds
MaxPayments == 3   \* PaymentRecords (and provider intents) ever created
MaxRepeats  == 2   \* purchases started when the same purchase is repeated
MaxProcs    == 2   \* handlers / jobs in flight at the same time
MaxDelta    == 2   \* largest magnitude of an administrative adjustment
MaxAdjusts  == 1   \* administrative adjustments ever made
OnePayment  == 1   \* purchases started when every operation is in play
MaxCredits  == 2   \* no webhook is delivered for a record credited this often
MaxDays     == 2   \* days over which the time restriction is evaluated
MaxFaults   == 1   \* provider or database calls that fail in a run
MaxInits    == 2   \* calls of CronService.init() in a run

\* ------------------------------------------------------- fixed test data
RecencyWindow == 30            \* minutes a pending record blocks a duplicate
Day       == 24 * 60
\* The instants of day 0 at which the clock is sampled: 09:30, 10:00, 10:30,
\* 11:00, 16:00, 17:00 and 23:00 Texas time
SampleTimes == <<9 * 60 + 30, 10 * 60, 10 * 60 + 30, 11 * 60, 16 * 60, 17 * 60,
                 23 * 60>>
\* The instants at which racing handlers are examined: 09:30 and 17:00
RaceTimes == {SampleTimes[1], SampleTimes[6]}
\* cron.schedule('0 17 * * *') and ('0 16 * * *'), timezone America/Chicago
ReleaseTime(location) ==
  IF location = "Cedar Park" THEN 17 * 60 ELSE 16 * 60

Users     == {"u1"}
Games     == {"g1"}
Locations == {"Cedar Park", "Liberty Hill"}   \* game.locations, all available
\* Names handed to the evaluator on its own: the two locations, other
\* spellings of them, and names of neither category
CedarNames    == {"Cedar Park", "cedar-park"}
LibertyNames  == {"Liberty Hill", "LIBERTY HILL"}
OtherNames    == {"Round Rock", "Leander"}
LocationNames == CedarNames \cup LibertyNames \cup OtherNames
\* A Number of tokens, in halves; Number.isInteger of such an amount
Whole(n)     == 2 * n
IsInteger(x) == x % 2 = 0
\* game.tokenPackages[i].tokens: a package of 1 token, as POST /games accepts
\* (isInt, min 1), and one of 1.5 tokens, as PUT /games/:id accepts (update
\* validators of the Game schema: a Number, min 1)
TokenPackages == <<Whole(1), Whole(1) + 1>>
ServerOffsets == {0, 360}  \* server zone minus Texas zone: Texas or UTC host

NoTime == -1    \* a null Date
NoRow  == -1    \* no TokenBalance document for the triple
NoPid  == 0     \* no payment

Max(a, b) == IF a >= b THEN a ELSE b

\* a || b on a value that may be absent
OrElse(a, b) == IF a = "none" THEN b ELSE a

\* ------------------------------------------------- utils/timeRestrictions
\* 'cedar' / 'liberty' substring match on the normalised location name
\* Location names, written out character by character
Chars(location) ==
  CASE location = "Cedar Park"   -> <<"C", "e", "d", "a", "r", " ", "P", "a", "r", "k">>
    [] location = "Liberty Hill" -> <<"L", "i", "b", "e", "r", "t", "y", " ", "H", "i", "l", "l">>
    [] location = "cedar-park"   -> <<"c", "e", "d", "a", "r", "-", "p", "a", "r", "k">>
    [] location = "LIBERTY HILL" -> <<"L", "I", "B", "E", "R", "T", "Y", " ", "H", "I", "L", "L">>
    [] location = "Round Rock"   -> <<"R", "o", "u", "n", "d", " ", "R", "o", "c", "k">>
    [] location = "Leander"      -> <<"L", "e", "a", "n", "d", "e", "r">>
    [] OTHER                     -> <<>>

\* String.prototype.toLowerCase, on the letters the names use
ToLowerCase(c) ==
  CASE c = "B" -> "b" [] c = "C" -> "c" [] c = "E" -> "e" [] c = "H" -> "h"
    [] c = "I" -> "i" [] c = "L" -> "l" [] c = "P" -> "p" [] c = "R" -> "r"
    [] c = "T" -> "t" [] c = "Y" -> "y" [] OTHER -> c

\* location.toLowerCase().replace(/[-\s]/g, '')
NormalizedLocation(location) ==
  SelectSeq([k \in DOMAIN Chars(location) |-> ToLowerCase(Chars(location)[k])],
            LAMBDA c : c \notin {"-", " "})

\* String.prototype.includes
Includes(str, sub) ==
  \E k \in 0..(Len(str) - Len(sub)) : SubSeq(str, k + 1, k + Len(sub)) = sub

LocationCategory(location) ==
  LET n == NormalizedLocation(location) IN
  IF \/ Includes(n, <<"c", "e", "d", "a", "r", "p", "a", "r", "k">>)
     \/ Includes(n, <<"c", "e", "d", "a", "r">>)
    THEN "cedar"
  ELSE IF \/ Includes(n, <<"l", "i", "b", "e", "r", "t", "y", "h", "i", "l", "l">>)
          \/ Includes(n, <<"l", "i", "b", "e", "r", "t", "y">>)
    THEN "liberty"
  ELSE "none"

\* The evaluator with Cedar Park's window closed at 11:00 inclusive
checkTimeRestrictionInclusive(location, paymentTime, offset) ==
  LET currentTime == paymentTime % Day
      day         == paymentTime \div Day
  IN  IF LocationCategory(location) = "cedar"
           /\ currentTime >= 180 /\ currentTime <= 660
        THEN [shouldDelay |-> TRUE,
              scheduledTime |-> (day + 1) * Day + 11 * 60 - offset]
        ELSE [shouldDelay |-> FALSE, scheduledTime |-> NoTime]

\* texasTime is the Texas wall clock re-read in the server's zone; the
\* scheduled time is built with setDate/setHours on that value, so its
\* instant is the wall-clock value minus the server's offset from Texas.
checkTimeRestriction(location, paymentTime, offset) ==
  LET currentTime == paymentTime % Day
      day         == paymentTime \div Day
      cat         == LocationCategory(location)
  IN  IF cat = "cedar" /\ currentTime >= 180 /\ currentTime < 660
        THEN [shouldDelay |-> TRUE,
              scheduledTime |-> (day + 1) * Day + 11 * 60 - offset]
      ELSE IF cat = "liberty" /\ (currentTime >= 1380 \/ currentTime < 600)
        THEN [shouldDelay |-> TRUE,
              scheduledTime |->
                (IF currentTime >= 1380 THEN day + 1 ELSE day) * Day
                  + 10 * 60 - offset]
      ELSE [shouldDelay |-> FALSE, scheduledTime |-> NoTime]

\* --------------------------------------------------------- status tables
DbStatuses == {"pending", "processing", "succeeded", "failed", "canceled",
               "expired"}

mapStripeStatusToDbStatus(stripeStatus) ==
  CASE stripeStatus = "succeeded"               -> "succeeded"
    [] stripeStatus = "processing"              -> "processing"
    [] stripeStatus = "canceled"                -> "canceled"
    [] stripeStatus = "requires_payment_method" -> "failed"
    [] stripeStatus = "requires_action"         -> "pending"
    [] stripeStatus = "requires_confirmation"   -> "pending"
    [] stripeStatus = "requires_capture"        -> "pending"
    [] stripeStatus = "expired"                 -> "expired"
    [] OTHER                                    -> "pending"

\* last_payment_error of an intent; "none" stands for an absent value
NoError == [code |-> "none", decline_code |-> "none", message |-> "none"]

\* The error the provider reports for a declined card
DeclineError == [code |-> "card_declined", decline_code |-> "generic_decline",
                 message |-> "Your card was declined."]

RequiresStatuses == {"requires_payment_method", "requires_action",
                     "requires_confirmation", "requires_capture"}

\* A display status without the line for succeeded, which then falls
\* through to the fallback
getDisplayStatusFallback(stripeStatus, lastPaymentError) ==
  IF stripeStatus = "processing" THEN "processing"
  ELSE IF stripeStatus \in {"failed", "canceled", "blocked", "expired"}
    THEN stripeStatus
  ELSE "incomplete"

\* typeof stripeStatus === 'string' && stripeStatus.startsWith('requires_'):
\* the four statuses of an intent and a status of the older Sources API
StartsWithRequires(stripeStatus) ==
  stripeStatus \in RequiresStatuses \cup {"requires_source"}

getPreciseDisplayStatus(stripeStatus, lastPaymentError) ==
  IF stripeStatus = "incomplete" \/ StartsWithRequires(stripeStatus)
    THEN IF lastPaymentError # NoError
           THEN IF lastPaymentError.code = "card_declined"
                   /\ lastPaymentError.decline_code \in
                        {"fraudulent", "blocked", "lost_card", "stolen_card"}
                  THEN "blocked"
                ELSE IF lastPaymentError.code \in
                          {"card_declined", "insufficient_funds",
                           "expired_card", "incorrect_cvc"}
                  THEN "failed"
                ELSE "incomplete"
         ELSE "incomplete"
  ELSE IF stripeStatus = "processing" THEN "processing"
  ELSE IF stripeStatus = "succeeded" THEN "succeeded"
  ELSE IF stripeStatus \in {"failed", "canceled", "blocked", "expired"}
    THEN stripeStatus
  ELSE "incomplete"

\* statusMap of mapPayPalStatus: the keys of the object literal
PayPalTable == {"COMPLETED", "PENDING", "VOIDED", "DENIED", "EXPIRED",
                "CREATED", "SAVED", "APPROVED", "PAYER_ACTION_REQUIRED",
                "CAPTURE_DENIED", "CAPTURE_PENDING", "CAPTURE_COMPLETED",
                "CAPTURE_VOIDED", "CAPTURE_REFUNDED", "CAPTURE_FAILED"}

\* Keys every object literal inherits from Object.prototype; the value found
\* under one of them is a function
InheritedKeys == {"constructor", "toString"}

\* statusMap[paypalStatus]; "none" stands for undefined
statusMap(paypalStatus) ==
  CASE paypalStatus \in {"COMPLETED", "CAPTURE_COMPLETED"}         -> "succeeded"
    [] paypalStatus \in {"PENDING", "APPROVED", "PAYER_ACTION_REQUIRED",
                         "CAPTURE_PENDING"}                        -> "processing"
    [] paypalStatus \in {"VOIDED", "CAPTURE_VOIDED"}                -> "canceled"
    [] paypalStatus \in {"DENIED", "CAPTURE_DENIED", "CAPTURE_FAILED"}
                                                                   -> "failed"
    [] paypalStatus = "EXPIRED"                                    -> "expired"
    [] paypalStatus \in {"CREATED", "SAVED"}                        -> "incomplete"
    [] paypalStatus = "CAPTURE_REFUNDED"                           -> "refunded"
    [] paypalStatus \in InheritedKeys                              -> "function"
    [] OTHER                                                       -> "none"

\* A table whose unknown statuses count as completed
mapPayPalStatusCompleted(paypalStatus) ==
  OrElse(statusMap(paypalStatus), "succeeded")

\* return statusMap[paypalStatus] || 'incomplete'
mapPayPalStatus(paypalStatus) == OrElse(statusMap(paypalStatus), "incomplete")

\* The statuses mapStripeStatusToDbStatus has a case for
StripeTable == {"succeeded", "processing", "canceled", "expired"}
                 \cup RequiresStatuses

\* The statuses getPreciseDisplayStatus has a line for
DisplayTable == {"incomplete", "processing", "succeeded", "failed",
                 "canceled", "blocked", "expired"}
                  \cup {st \in StripeTable \cup {"requires_source"} :
                          StartsWithRequires(st)}

\* What a provider may report: the statuses of the three tables, statuses of
\* no table, an inherited key, and no status at all ("none")
ProviderStatuses ==
  StripeTable \cup PayPalTable \cup DisplayTable \cup InheritedKeys
    \cup {"refunded", "completed", "REFUNDED", "unknown", "none"}

\* last_payment_error: none, declined, declined as fraudulent, and codes with
\* and without a line of their own
PaymentErrors ==
  {NoError, DeclineError,
   [code |-> "card_declined", decline_code |-> "fraudulent",
    message |-> "Your card was declined."],
   [code |-> "insufficient_funds", decline_code |-> "none",
    message |-> "Your card has insufficient funds."],
   [code |-> "authentication_required", decline_code |-> "none",
    message |-> "Authentication required."],
   [code |-> "processing_error", decline_code |-> "none",
    message |-> "An error occurred while processing your card."]}

\* ------------------------------------------------------------------ state
VARIABLES
  now,        \* the clock: Texas wall-clock minutes since day 0, 00:00
  tz,         \* the server's zone offset from Texas time, in minutes
  payments,   \* the Payment collection, in insertion order; _id = index
  stripe,     \* the provider's payment intents; intent id = index
  events,     \* webhook events the provider has emitted (any may be
              \* delivered at any time, any number of times)
  balances,   \* the TokenBalance collection: triple -> tokens, or NoRow
  procs,      \* the handlers and jobs in flight, with their local copies
  credits,    \* history: balance writes made on behalf of each payment
  regressed,  \* history: payments whose status was written from succeeded
              \* to another value
  cleared,    \* history: payments whose tokensScheduledFor was written from
              \* a time to null
  adjusted,   \* history: the adjustments made, and the triples whose
              \* balance one of them changed
  lastCreate, \* history: the record the latest create-payment-intent call
              \* answered with, and whether it was an existing one
  mode,       \* "seq": one handler at a time; "conc": MaxProcs interleave
  quota,      \* purchases the customer starts in this run
  restriction, \* the latest evaluation of checkTimeRestriction on its own
  obs,        \* history: what the latest sweep found, the faults injected
  reply,      \* the value the latest call of a function on its own, or of
              \* a read-only route, returned
  cron        \* the CronService: isInitialized, the jobs node-cron holds,
              \* and (history) the calls of init() made

vars == <<now, tz, payments, stripe, events, balances, procs, credits,
          regressed, cleared, adjusted, lastCreate, mode, quota,
          restriction, obs, reply, cron>>

Procs   == 1..MaxProcs
Triples == Users \X Games \X Locations
Pids    == 1..Len(payments)

TripleOf(doc) == <<doc.user, doc.game, doc.location>>

\* metadata of a Payment document: the failure details the handlers write
NoMetadata == [failureReason |-> "none", errorCode |-> "none"]

\* The paths paymentSchema declares under metadata.  The schema is strict:
\* a key set under metadata that it does not declare is dropped by set()
MetadataPaths == {"gameName", "userFirstname", "userLastname", "userEmail",
                  "timeRestriction"}

StrictMetadata(m) ==
  [f \in DOMAIN m |-> IF f \in MetadataPaths THEN m[f] ELSE "none"]


\* paymentSchema: the paths of a Payment document the handlers write
NewPayment(user, game, pkg, location, intent, at) ==
  [user |-> user, game |-> game, pkg |-> pkg,
   tokens |-> TokenPackages[pkg], location |-> location, intent |-> intent,
   status |-> "pending", tokensAdded |-> FALSE, tokensScheduledFor |-> NoTime,
   metadata |-> NoMetadata, createdAt |-> at]

NoDoc == [id |-> NoPid]
NoCreate == [pid |-> NoPid, reused |-> FALSE]
NoRestriction == [location |-> "", at |-> NoTime,
                  result |-> [shouldDelay |-> FALSE, scheduledTime |-> NoTime]]
NoReply == [of |-> "none"]
\* The CronService as constructed, the three jobs of init() in the order in
\* which it schedules them, and the CronService after one init()
NoCron   == [isInitialized |-> FALSE, jobs |-> <<>>, calls |-> 0]
InitJobs == <<"fix", "Cedar Park", "Liberty Hill">>
Started  == [isInitialized |-> TRUE, jobs |-> InitJobs, calls |-> 1]
NoIntent == [status |-> "none", err |-> NoError]

IdleProc ==
  [kind |-> "idle", pc |-> "idle", ev |-> "", pi |-> NoIntent, doc |-> NoDoc,
   dirty |-> {}, bal |-> NoRow, balNew |-> FALSE, batch |-> <<>>,
   pkg |-> 0, location |-> "", threw |-> FALSE, errorCount |-> 0]

\* A document as loaded by findOne / find: the stored paths plus its _id
Load(id) == [f \in DOMAIN payments[id] \cup {"id"} |->
               IF f = "id" THEN id ELSE payments[id][f]]

\* doc.path = value: mongoose marks the path modified only when the value
\* differs from the one the copy holds
SetField(p, f, v) ==
  IF p.doc[f] = v THEN p
  ELSE [p EXCEPT !.doc = [@ EXCEPT ![f] = v], !.dirty = @ \cup {f}]

\* The document save() leaves in the collection: $set of the modified paths
SaveDelta(stored, doc, dirty) ==
  [f \in DOMAIN stored |-> IF f \in dirty THEN doc[f] ELSE stored[f]]

\* Schema validation run by save(): status must be one of the enum values
SaveValid(p) == "status" \in p.dirty => p.doc.status \in DbStatuses

\* Nothing observed yet; mail: whether the sending of a notification is
\* looked at as a step of its own
NoObs == [stuck |-> {}, faults |-> 0, failed |-> {}, mail |-> FALSE]

InitStore ==
  /\ payments = <<>>
  /\ events = {}
  /\ balances = [t \in Triples |-> NoRow]
  /\ procs = [i \in Procs |-> IdleProc]
  /\ credits = <<>>
  /\ regressed = {}
  /\ cleared = {}
  /\ adjusted = [calls |-> 0, changed |-> {}]
  /\ lastCreate = NoCreate
  /\ restriction = NoRestriction
  /\ reply = NoReply

\* The server has started: it has called cronService.init() once
InitBase == InitStore /\ stripe = <<>> /\ cron = Started

InitCommon == InitBase /\ obs = NoObs

\* Every operation, handlers interleaving, within one sampled instant
Init ==
  /\ InitCommon
  /\ now \in RaceTimes /\ tz = 0
  /\ mode = "conc" /\ quota = OnePayment

\* Every operation, one handler at a time, the clock running from 09:30
InitSeq ==
  /\ InitCommon
  /\ now = SampleTimes[1] /\ tz \in ServerOffsets
  /\ mode = "seq" /\ quota = OnePayment

\* Repeated purchases, one handler at a time, the clock running from 09:30
InitCreate ==
  /\ InitCommon
  /\ now = SampleTimes[1] /\ tz = 0
  /\ mode = "seq" /\ quota = MaxRepeats

\* Two purchases credited by interleaving handlers at 11:00
InitCredit ==
  /\ InitCommon
  /\ now = SampleTimes[4] /\ tz = 0
  /\ mode = "conc" /\ quota = MaxPayments

\* One purchase, cron firing its jobs as the clock runs from 09:30, on a
\* host in the Texas zone
InitRetry ==
  /\ InitCommon
  /\ now = SampleTimes[1] /\ tz = 0
  /\ mode = "seq" /\ quota = OnePayment

\* One purchase on a server whose CronService is constructed and not yet
\* initialized, the clock running from 09:30
InitCron ==
  /\ InitStore /\ stripe = <<>> /\ obs = NoObs /\ cron = NoCron
  /\ now = SampleTimes[1] /\ tz = 0
  /\ mode = "seq" /\ quota = OnePayment

\* One purchase, one handler at a time, the clock running from 09:30, each
\* notification sent in a step of its own
InitNotify ==
  /\ InitBase /\ obs = [NoObs EXCEPT !.mail = TRUE]
  /\ now = SampleTimes[1] /\ tz \in ServerOffsets
  /\ mode = "seq" /\ quota = OnePayment

\* The evaluator on its own: any minute of the days looked at, any name, on
\* a host in the Texas zone or in UTC
InitTime ==
  /\ InitCommon
  /\ now \in 0..(MaxDays * Day - 1) /\ tz \in ServerOffsets
  /\ mode = "seq" /\ quota = OnePayment

\* A status function on its own: the provider reports any status of its
\* vocabulary or a status of none, and any error or none
InitMap ==
  /\ InitStore /\ obs = NoObs /\ cron = Started
  /\ stripe \in {<<[status |-> st, err |-> e]>> :
                    st \in ProviderStatuses, e \in PaymentErrors}
  /\ now = SampleTimes[1] /\ tz = 0
  /\ mode = "seq" /\ quota = OnePayment

\* ------------------------------------------- code between two awaited calls
\* The status a handler derives from what the provider told it
TargetStatus(p) ==
  CASE p.kind \in {"confirm", "check", "lookup"}
         -> mapStripeStatusToDbStatus(p.pi.status)
    [] p.kind = "fix" -> getPreciseDisplayStatus(p.pi.status, p.pi.err)
    [] p.kind = "hook" /\ p.ev = "payment_intent.succeeded"      -> "succeeded"
    [] p.kind = "hook" /\ p.ev = "payment_intent.payment_failed" -> "failed"
    [] p.kind = "hook" /\ p.ev = "payment_intent.canceled"       -> "canceled"
    [] p.kind = "hook" /\ p.ev = "payment_intent.processing"     -> "processing"
    [] p.kind = "hook" /\ p.ev = "charge.failed"                 -> "failed"
    [] OTHER -> p.doc.status   \* payment_intent.requires_action: metadata only

\* The handler is done with its document: a sweep goes on to the next one of
\* its batch (also from its per-item catch), a request answers and ends.
Finish(p) ==
  IF p.kind \in {"fix", "release", "scheduled"} /\ p.batch # <<>>
    THEN [p EXCEPT !.doc = Head(p.batch), !.batch = Tail(p.batch),
                   !.dirty = {}, !.pi = NoIntent, !.bal = NoRow,
                   !.balNew = FALSE, !.threw = FALSE,
                   !.pc = IF p.kind = "fix" THEN "retrieve" ELSE "balFind"]
    ELSE IdleProc

\* A crediting decision that takes 11:00 at Cedar Park for closing time
CreditDecisionInclusive(p) ==
  LET timeRestriction == checkTimeRestrictionInclusive(p.doc.location, now, tz)
  IN  IF timeRestriction.shouldDelay /\ timeRestriction.scheduledTime # NoTime
        THEN [SetField(SetField(p, "tokensScheduledFor",
                                timeRestriction.scheduledTime),
                       "tokensAdded", FALSE)
                EXCEPT !.pc = "schedSave"]
        ELSE [p EXCEPT !.pc = "balFind"]

\* The crediting decision: schedule when the evaluator says delay, else go
\* on to addTokensToBalance (payments.js 279-292, 661-670, 869-882; fix 317-328)
CreditDecision(p) ==
  LET timeRestriction == checkTimeRestriction(p.doc.location, now, tz)
  IN  IF timeRestriction.shouldDelay /\ timeRestriction.scheduledTime # NoTime
        THEN [SetField(SetField(p, "tokensScheduledFor",
                                timeRestriction.scheduledTime),
                       "tokensAdded", FALSE)
                EXCEPT !.pc = "schedSave"]
        ELSE [p EXCEPT !.pc = "balFind"]

\* A crediting block that does not look at tokensAdded
AfterStatusUnguarded(p) ==
  IF \/ p.kind = "hook" /\ p.ev = "payment_intent.succeeded"
     \/ /\ p.kind \in {"confirm", "check", "fix"}
        /\ TargetStatus(p) = "succeeded"
    THEN CreditDecision(p)
    ELSE Finish(p)

\* After the status is up to date: credit or end.  The webhook handler does
\* not look at tokensAdded; confirm-payment, check-status and the sweep do;
\* the by-intent lookup has no crediting block.
AfterStatus(p) ==
  IF \/ p.kind = "hook" /\ p.ev = "payment_intent.succeeded"
     \/ /\ p.kind \in {"confirm", "check", "fix"}
        /\ TargetStatus(p) = "succeeded"
        /\ ~p.doc.tokensAdded
    THEN CreditDecision(p)
    ELSE Finish(p)

\* The failure details a handler puts in payment.metadata next to the
\* status: the webhook handlers always, with their defaults; the others
\* only when the new status is failed and the intent has a
\* last_payment_error
FailureDetails(p) ==
  CASE p.kind = "hook" /\ p.ev = "payment_intent.payment_failed"
         -> [failureReason |-> IF p.pi.err = NoError THEN "Payment failed"
                               ELSE OrElse(p.pi.err.message, "Payment failed"),
             errorCode |-> IF p.pi.err = NoError THEN "unknown_error"
                           ELSE OrElse(p.pi.err.code, "unknown_error")]
    [] p.kind = "hook" /\ p.ev = "charge.failed"
         -> [failureReason |-> OrElse(p.pi.err.message, "Charge failed"),
             errorCode |-> OrElse(p.pi.err.code, "charge_failed")]
    [] /\ p.kind \in {"confirm", "check", "lookup", "fix"}
       /\ TargetStatus(p) = "failed"
       /\ p.pi.err # NoError
         -> [failureReason |-> p.pi.err.message, errorCode |-> p.pi.err.code]
    [] OTHER -> p.doc.metadata

\* payment.status = ...; payment.metadata = {...payment.metadata, ...}
SetStatus(p) ==
  SetField(SetField(p, "status", TargetStatus(p)),
           "metadata", StrictMetadata(FailureDetails(p)))

\* confirm-payment, check-status, by-intent, fixFailedPayments once the
\* document and the provider's intent are both at hand
UpdateStatus(p) ==
  IF p.kind = "confirm" /\ p.doc.status = "succeeded" THEN Finish(p)
  ELSE IF p.doc.status # TargetStatus(p)
    THEN [SetStatus(p) EXCEPT !.pc = "statusSave"]
  ELSE AfterStatus(p)

\* A webhook handler that also resets the schedule of the record it updates
HookLoadedReset(p) ==
  IF p.ev = "payment_intent.succeeded" /\ p.doc.status = "succeeded"
    THEN Finish(p)
    ELSE [SetField(SetStatus(p), "tokensScheduledFor", NoTime)
            EXCEPT !.pc = "statusSave"]

\* A webhook handler once its document is loaded
HookLoaded(p) ==
  IF p.ev = "payment_intent.succeeded" /\ p.doc.status = "succeeded"
    THEN Finish(p)
    ELSE [SetStatus(p) EXCEPT !.pc = "statusSave"]

\* ---------------------------------------------------------------- actions
AllIdle == \A j \in Procs : procs[j].kind = "idle"
CanStart(i) ==
  /\ procs[i].kind = "idle"
  /\ \A j \in Procs : j < i => procs[j].kind # "idle"
  /\ mode = "seq" => AllIdle

Creating == {j \in Procs : procs[j].kind = "create"}

ByIntent(k) == {id \in Pids : payments[id].intent = k}

\* history kept by every write to the Payment collection
WritePayment(id, rec) ==
  /\ payments' = [payments EXCEPT ![id] = rec]
  /\ regressed' = IF payments[id].status = "succeeded"
                     /\ rec.status # "succeeded"
                    THEN regressed \cup {id} ELSE regressed
  /\ cleared' = IF payments[id].tokensScheduledFor # NoTime
                   /\ rec.tokensScheduledFor = NoTime
                  THEN cleared \cup {id} ELSE cleared

\* The provider, the customer and the clock move between handlers' steps;
\* with one handler at a time they move between handlers
EnvStep == mode = "seq" => AllIdle

\* time passes, to the next sampled instant, up to the last-th
Tick(last) ==
  /\ EnvStep
  /\ \E n \in 1..(last - 1) :
       now = SampleTimes[n] /\ now' = SampleTimes[n + 1]
  /\ UNCHANGED <<tz, payments, stripe, events, balances, procs, credits,
                 regressed, cleared, adjusted, lastCreate, mode, quota,
                 restriction, obs, reply, cron>>

\* -- the provider and the customer (the events the webhook switch handles)
Emit(k, types) == events' = events \cup {[type |-> t, intent |-> k] : t \in types}

ProviderStep(k, from, to, err, types) ==
  /\ EnvStep
  /\ k \in 1..Len(stripe)
  /\ ByIntent(k) # {}          \* the client got the secret from the response
  /\ stripe[k].status \in from
  /\ stripe' = [stripe EXCEPT ![k] = [status |-> to, err |-> err]]
  /\ Emit(k, types)
  /\ UNCHANGED <<now, tz, payments, balances, procs, credits, regressed,
                 cleared, adjusted, lastCreate, mode, quota,
                 restriction, obs, reply, cron>>

ProviderRequiresAction(k) ==
  ProviderStep(k, {"requires_payment_method"}, "requires_action", NoError,
               {"payment_intent.requires_action"})

ProviderProcessing(k) ==
  ProviderStep(k, {"requires_payment_method", "requires_action"},
               "processing", NoError, {"payment_intent.processing"})

ProviderSucceeds(k) ==
  ProviderStep(k, {"processing"}, "succeeded", NoError,
               {"payment_intent.succeeded"})

ProviderDeclines(k) ==
  ProviderStep(k, {"processing"}, "requires_payment_method",
               DeclineError,
               {"payment_intent.payment_failed", "charge.failed"})

ProviderCancels(k) ==
  ProviderStep(k, {"requires_payment_method"}, "canceled", NoError,
               {"payment_intent.canceled"})

\* -- requests and jobs: each start action runs the handler's first awaited call
Become(i, p) == procs' = [procs EXCEPT ![i] = p]

StartProc(kind) == [IdleProc EXCEPT !.kind = kind]

\* POST /confirm-payment: stripe.paymentIntents.retrieve
ConfirmPayment(i, id) ==
  /\ CanStart(i)
  /\ id \in Pids
  /\ Become(i, [StartProc("confirm") EXCEPT
                  !.pc = "find", !.doc = [id |-> id],
                  !.pi = stripe[payments[id].intent]])
  /\ UNCHANGED <<now, tz, payments, stripe, events, balances, credits,
                 regressed, cleared, adjusted, lastCreate, mode, quota,
                 restriction, obs, reply, cron>>

\* confirm-payment: Payment.findOne, then the code up to the next await
PaymentFindOne(i) ==
  /\ procs[i].pc = "find"
  /\ Become(i, UpdateStatus([procs[i] EXCEPT !.doc = Load(procs[i].doc.id)]))
  /\ UNCHANGED <<now, tz, payments, stripe, events, balances, credits,
                 regressed, cleared, adjusted, lastCreate, mode, quota,
                 restriction, obs, reply, cron>>

\* POST /check-status: Payment.findOne
CheckStatus(i, id) ==
  /\ CanStart(i)
  /\ id \in Pids
  /\ Become(i, [StartProc("check") EXCEPT !.pc = "retrieve", !.doc = Load(id)])
  /\ UNCHANGED <<now, tz, payments, stripe, events, balances, credits,
                 regressed, cleared, adjusted, lastCreate, mode, quota,
                 restriction, obs, reply, cron>>

\* GET /by-intent/:paymentIntentId: Payment.findOne; the provider is asked
\* only while the record is pending or processing
GetByIntent(i, id) ==
  /\ CanStart(i)
  /\ id \in Pids
  /\ payments[id].status \in {"pending", "processing"}
  /\ Become(i, [StartProc("lookup") EXCEPT !.pc = "retrieve", !.doc = Load(id)])
  /\ UNCHANGED <<now, tz, payments, stripe, events, balances, credits,
                 regressed, cleared, adjusted, lastCreate, mode, quota,
                 restriction, obs, reply, cron>>

\* check-status, by-intent and fixFailedPayments: stripe.paymentIntents.retrieve
StripeRetrieve(i) ==
  /\ procs[i].pc = "retrieve"
  /\ Become(i, UpdateStatus([procs[i] EXCEPT
                               !.pi = stripe[procs[i].doc.intent]]))
  /\ UNCHANGED <<now, tz, payments, stripe, events, balances, credits,
                 regressed, cleared, adjusted, lastCreate, mode, quota,
                 restriction, obs, reply, cron>>

\* event.data.object of a delivered event: the intent or the charge as the
\* provider had it when it emitted the event
EventObject(e) ==
  [status |-> "event",
   err |-> IF e.type \in {"payment_intent.payment_failed", "charge.failed"}
             THEN DeclineError ELSE NoError]

\* POST /webhook with a verified event: the handler's Payment.findOne
Webhook(i, e) ==
  /\ CanStart(i)
  /\ e \in events
  /\ \E id \in ByIntent(e.intent) :
       /\ credits[id] < MaxCredits
       /\ Become(i, HookLoaded([StartProc("hook") EXCEPT
                                  !.ev = e.type, !.pi = EventObject(e),
                                  !.doc = Load(id)]))
  /\ UNCHANGED <<now, tz, payments, stripe, events, balances, credits,
                 regressed, cleared, adjusted, lastCreate, mode, quota,
                 restriction, obs, reply, cron>>

\* The records a sweep finds stuck in processing, never succeeded before and
\* not credited, while the provider reports their intent succeeded
Stuck ==
  {id \in Pids : /\ payments[id].status = "processing"
                 /\ ~payments[id].tokensAdded
                 /\ id \notin regressed
                 /\ stripe[payments[id].intent].status = "succeeded"}

\* The find of a sweep that looks only at records in a status the provider
\* names for a payment under way
pendingPayments ==
  SelectSeq([id \in Pids |-> Load(id)],
            LAMBDA d : d.status \in RequiresStatuses
                                      \cup {"processing", "incomplete"})

\* fixFailedPayments: Payment.find({})
allPayments == [id \in Pids |-> Load(id)]

FixFailedPayments(i) ==
  /\ CanStart(i)
  /\ Pids # {}
  /\ Become(i, Finish([StartProc("fix") EXCEPT !.batch = allPayments]))
  /\ obs' = [obs EXCEPT !.stuck = Stuck]
  /\ UNCHANGED <<now, tz, payments, stripe, events, balances, credits,
                 regressed, cleared, adjusted, lastCreate, mode, quota,
                 restriction, reply, cron>>

\* processScheduledTokensForLocation: Payment.find of the succeeded,
\* not yet credited records of the location
ScheduledPayments(location) ==
  SelectSeq([id \in Pids |-> Load(id)],
            LAMBDA d : /\ d.status = "succeeded"
                       /\ d.location = location
                       /\ ~d.tokensAdded)

ProcessScheduledTokensForLocation(i, location) ==
  /\ CanStart(i)
  /\ now % Day = ReleaseTime(location)
  /\ ScheduledPayments(location) # <<>>
  /\ Become(i, Finish([StartProc("release") EXCEPT
                         !.batch = ScheduledPayments(location)]))
  /\ UNCHANGED <<now, tz, payments, stripe, events, balances, credits,
                 regressed, cleared, adjusted, lastCreate, mode, quota,
                 restriction, obs, reply, cron>>

\* Payment.processScheduledTokens (scripts/process-scheduled-tokens.js): find
\* of the succeeded, not yet credited records whose release time has come;
\* a null tokensScheduledFor does not match $lte
DuePayments ==
  SelectSeq([id \in Pids |-> Load(id)],
            LAMBDA d : /\ d.status = "succeeded"
                       /\ d.tokensScheduledFor # NoTime
                       /\ d.tokensScheduledFor <= now
                       /\ ~d.tokensAdded)

ProcessScheduledTokens(i) ==
  /\ CanStart(i)
  /\ DuePayments # <<>>
  /\ Become(i, Finish([StartProc("scheduled") EXCEPT !.batch = DuePayments]))
  /\ UNCHANGED <<now, tz, payments, stripe, events, balances, credits,
                 regressed, cleared, adjusted, lastCreate, mode, quota,
                 restriction, obs, reply, cron>>

\* A call of init() that schedules its jobs whether or not the service is
\* initialized
CronInitAgain ==
  /\ AllIdle
  /\ cron.calls < MaxInits
  /\ cron' = [isInitialized |-> TRUE, jobs |-> cron.jobs \o InitJobs,
              calls |-> cron.calls + 1]
  /\ UNCHANGED <<now, tz, payments, stripe, events, balances, procs, credits,
                 regressed, cleared, adjusted, lastCreate, mode, quota,
                 restriction, obs, reply>>

\* CronService.init(): returns at once when the service is initialized,
\* else schedules the three jobs and sets isInitialized.  The run is bounded
\* to MaxInits calls.
CronInit ==
  /\ AllIdle
  /\ cron.calls < MaxInits
  /\ cron' = IF cron.isInitialized
               THEN [cron EXCEPT !.calls = @ + 1]
               ELSE [isInitialized |-> TRUE, jobs |-> cron.jobs \o InitJobs,
                     calls |-> cron.calls + 1]
  /\ UNCHANGED <<now, tz, payments, stripe, events, balances, procs, credits,
                 regressed, cleared, adjusted, lastCreate, mode, quota,
                 restriction, obs, reply>>

\* The jobs node-cron holds that have work at the minute: the sweep whenever
\* there is a record, the release job of a location at its hour when it
\* finds a record
DueJobs(minute) ==
  SelectSeq(cron.jobs,
            LAMBDA job :
              IF job = "fix" THEN Pids # {}
              ELSE /\ minute % Day = ReleaseTime(job)
                   /\ ScheduledPayments(job) # <<>>)

\* The minute turns and node-cron fires the jobs of CronService.init: the
\* fixFailedPayments sweep, every minute, and, at its hour, the release job
\* of a location; each starts with its find
CronTick(last) ==
  LET next == SampleTimes[(CHOOSE n \in 1..(last - 1) :
                             now = SampleTimes[n]) + 1]
      due  == DueJobs(next)
  IN
  /\ AllIdle
  /\ \E n \in 1..(last - 1) : now = SampleTimes[n]
  /\ now' = next
  /\ procs' = [i \in Procs |->
       IF i > Len(due) THEN IdleProc
       ELSE IF due[i] = "fix"
         THEN Finish([StartProc("fix") EXCEPT !.batch = allPayments])
       ELSE Finish([StartProc("release") EXCEPT
                      !.batch = ScheduledPayments(due[i])])]
  /\ obs' = [obs EXCEPT !.stuck = Stuck]
  /\ UNCHANGED <<tz, payments, stripe, events, balances, credits, regressed,
                 cleared, adjusted, lastCreate, mode, quota, restriction, reply,
                 cron>>

\* payment.save() of a status change; a value outside the schema's enum
\* makes save() throw and nothing is written
StatusSave(i) ==
  LET p == procs[i] IN
  /\ p.pc = "statusSave"
  /\ IF SaveValid(p)
       THEN /\ WritePayment(p.doc.id,
                            SaveDelta(payments[p.doc.id], p.doc, p.dirty))
            /\ Become(i, AfterStatus([p EXCEPT !.dirty = {}]))
       ELSE /\ Become(i, Finish(p))
            /\ UNCHANGED <<payments, regressed, cleared>>
  /\ UNCHANGED <<now, tz, stripe, events, balances, credits, adjusted,
                 lastCreate, mode, quota,
                 restriction, obs, reply, cron>>

\* After the save that ends the crediting decision the handler sends its
\* notification (sendEmailNotifications, sendTokenAvailableEmail, sendEmail);
\* fixFailedPayments sends none
Notified(p) ==
  IF obs.mail /\ p.kind # "fix"
    THEN [p EXCEPT !.dirty = {}, !.pc = "notify"]
    ELSE Finish(p)

\* payment.save() of the delay branch
ScheduleSave(i) ==
  LET p == procs[i] IN
  /\ p.pc = "schedSave"
  /\ WritePayment(p.doc.id, SaveDelta(payments[p.doc.id], p.doc, p.dirty))
  /\ Become(i, Notified(p))
  /\ UNCHANGED <<now, tz, stripe, events, balances, credits, adjusted,
                 lastCreate, mode, quota,
                 restriction, obs, reply, cron>>

\* addTokensToBalance / release job: TokenBalance.findOne, new document at 0
\* if absent, tokens += tokenPackage.tokens
BalanceFindOne(i) ==
  LET p   == procs[i]
      row == balances[TripleOf(p.doc)]
  IN
  /\ p.pc = "balFind"
  /\ Become(i, [p EXCEPT !.bal = (IF row = NoRow THEN 0 ELSE row) + p.doc.tokens,
                         !.balNew = (row = NoRow),
                         !.pc = "balSave"])
  /\ UNCHANGED <<now, tz, payments, stripe, events, balances, credits,
                 regressed, cleared, adjusted, lastCreate, mode, quota,
                 restriction, obs, reply, cron>>

\* Crediting code that leaves the payment as it was loaded
MarkNothing(p) == p

\* What the crediting code sets on the payment after the balance is saved
MarkAdded(p) ==
  IF p.kind = "release"
    THEN SetField(SetField(p, "tokensAdded", TRUE), "tokensScheduledFor", NoTime)
    ELSE SetField(p, "tokensAdded", TRUE)

\* Crediting code that sends its notification where the save of tokensAdded
\* belongs
NotifyBeforeSave(p) ==
  [MarkAdded(p) EXCEPT !.pc = IF obs.mail THEN "notify" ELSE "paySave"]

\* After tokenBalance.save(): payment.tokensAdded = true; payment.save()
AfterBalanceSave(p) == [MarkAdded(p) EXCEPT !.pc = "paySave"]

\* tokenBalance.save(): insert of a new document (the unique index rejects a
\* second one for the triple) or $set of tokens on the loaded one
BalanceSave(i) ==
  LET p == procs[i]
      t == TripleOf(p.doc)
  IN
  /\ p.pc = "balSave"
  /\ IF p.balNew /\ balances[t] # NoRow
       THEN /\ Become(i, Finish(p))
            /\ UNCHANGED <<balances, credits>>
       ELSE /\ balances' = [balances EXCEPT ![t] = p.bal]
            /\ credits' = [credits EXCEPT ![p.doc.id] = @ + 1]
            /\ Become(i, AfterBalanceSave(p))
  /\ UNCHANGED <<now, tz, payments, stripe, events, regressed, cleared, adjusted,
                 lastCreate, mode, quota,
                 restriction, obs, reply, cron>>

\* payment.save() that marks the tokens as added
TokensAddedSave(i) ==
  LET p == procs[i] IN
  /\ p.pc = "paySave"
  /\ WritePayment(p.doc.id, SaveDelta(payments[p.doc.id], p.doc, p.dirty))
  /\ Become(i, Notified(p))
  /\ UNCHANGED <<now, tz, stripe, events, balances, credits, adjusted,
                 lastCreate, mode, quota,
                 restriction, obs, reply, cron>>

\* -- POST /create-payment-intent (the game is active, the package and the
\*    location exist and are available)
\* A recency test that leaves out a record created exactly 30 minutes ago
MatchesExistingStrict(rec, user, game, pkg, location) ==
  /\ rec.user = user /\ rec.game = game
  /\ rec.tokens = TokenPackages[pkg] /\ rec.pkg = pkg
  /\ rec.location = location
  /\ rec.status \in {"pending", "processing"}
  /\ rec.createdAt > now - RecencyWindow

MatchesExisting(rec, user, game, pkg, location) ==
  /\ rec.user = user /\ rec.game = game
  /\ rec.tokens = TokenPackages[pkg] /\ rec.pkg = pkg
  /\ rec.location = location
  /\ rec.status \in {"pending", "processing"}
  /\ rec.createdAt >= now - RecencyWindow

ExistingPayments(user, game, pkg, location) ==
  {id \in Pids : MatchesExisting(payments[id], user, game, pkg, location)}

Lowest(S) == CHOOSE x \in S : \A y \in S : x <= y

\* Payment.findOne of a recent pending record for the same purchase.  The
\* run is bounded to quota provider intents: a call that would create one
\* more is not started.
CreatePaymentIntent(i, pkg, location) ==
  LET found == ExistingPayments("u1", "g1", pkg, location) IN
  /\ CanStart(i)
  /\ \/ Len(stripe) + Cardinality(Creating) < quota
     \/ /\ mode = "seq"
        /\ found # {}
        /\ stripe[payments[Lowest(found)].intent].status
             = "requires_payment_method"
  /\ Become(i, [StartProc("create") EXCEPT
                  !.pkg = pkg, !.location = location,
                  !.doc = IF found = {} THEN NoDoc ELSE Load(Lowest(found)),
                  !.pc = IF found = {} THEN "createIntent"
                                        ELSE "retrieveExisting"])
  /\ UNCHANGED <<now, tz, payments, stripe, events, balances, credits,
                 regressed, cleared, adjusted, lastCreate, mode, quota,
                 restriction, obs, reply, cron>>

\* create-payment-intent for a purchase that repeats no recent pending one:
\* the findOne finds nothing and the handler goes on to create the intent
NewPurchase(i, pkg, location) ==
  /\ ExistingPayments("u1", "g1", pkg, location) = {}
  /\ CreatePaymentIntent(i, pkg, location)

\* A retrieve step that answers with the existing record whatever the
\* provider reports
RetrieveExistingAlways(i) ==
  LET p == procs[i] IN
  /\ p.pc = "retrieveExisting"
  /\ Become(i, IdleProc)
  /\ lastCreate' = [pid |-> p.doc.id, reused |-> TRUE]
  /\ UNCHANGED <<now, tz, payments, stripe, events, balances, credits,
                 regressed, cleared, adjusted, mode, quota,
                 restriction, obs, reply, cron>>

\* stripe.paymentIntents.retrieve of the existing record's intent: answer
\* with the existing record, or mark it expired
RetrieveExisting(i) ==
  LET p == procs[i] IN
  /\ p.pc = "retrieveExisting"
  /\ IF stripe[p.doc.intent].status = "requires_payment_method"
       THEN /\ Become(i, IdleProc)
            /\ lastCreate' = [pid |-> p.doc.id, reused |-> TRUE]
       ELSE /\ Become(i, [SetField(p, "status", "expired")
                            EXCEPT !.pc = "expireSave"])
            /\ UNCHANGED lastCreate
  /\ UNCHANGED <<now, tz, payments, stripe, events, balances, credits,
                 regressed, cleared, adjusted, mode, quota,
                 restriction, obs, reply, cron>>

\* existingPayment.save() with status expired
ExpireSave(i) ==
  LET p == procs[i] IN
  /\ p.pc = "expireSave"
  /\ WritePayment(p.doc.id, SaveDelta(payments[p.doc.id], p.doc, p.dirty))
  /\ Become(i, [p EXCEPT !.doc = NoDoc, !.dirty = {}, !.pc = "createIntent"])
  /\ UNCHANGED <<now, tz, stripe, events, balances, credits, adjusted,
                 lastCreate, mode, quota,
                 restriction, obs, reply, cron>>

\* stripe.paymentIntents.create
StripeCreate(i) ==
  LET p == procs[i] IN
  /\ p.pc = "createIntent"
  /\ stripe' = Append(stripe, [status |-> "requires_payment_method",
                               err |-> NoError])
  /\ Become(i, [p EXCEPT !.doc = [id |-> NoPid, intent |-> Len(stripe) + 1],
                         !.pc = "recordSave"])
  /\ UNCHANGED <<now, tz, payments, events, balances, credits, regressed,
                 cleared, adjusted, lastCreate, mode, quota,
                 restriction, obs, reply, cron>>

\* payment.save() of the new record, and the response
RecordSave(i) ==
  LET p == procs[i] IN
  /\ p.pc = "recordSave"
  /\ payments' = Append(payments, NewPayment("u1", "g1", p.pkg, p.location,
                                             p.doc.intent, now))
  /\ credits' = Append(credits, 0)
  /\ lastCreate' = [pid |-> Len(payments) + 1, reused |-> FALSE]
  /\ Become(i, IdleProc)
  /\ UNCHANGED <<now, tz, stripe, events, balances, regressed, cleared, adjusted,
                 mode, quota,
                 restriction, obs, reply, cron>>

\* -- calls that fail: the provider times out or answers 5xx, the database
\*    rejects a write.  A run has at most MaxFaults of them.
Faulty == obs.faults < MaxFaults
\* history: the handler, the record, the call that failed and what the
\* handler answered
Fault(kind, id, pc, answer) ==
  obs' = [obs EXCEPT !.faults = @ + 1,
                     !.failed = @ \cup {[kind |-> kind, id |-> id, pc |-> pc,
                                         answer |-> answer]}]

\* Routes without a try / catch around their crediting block: every error
\* reaches the outer catch
AnswerOuterCatch(p) ==
  IF p.kind \in {"fix", "release", "scheduled"} THEN "none" ELSE "error"

\* What a request answers when its call at p.pc throws.  An error in the
\* crediting block of confirm-payment, check-status and handlePaymentSuccess,
\* or in the provider block of by-intent, is caught there and the handler
\* goes on to its normal answer ("ok": success: true, or received: true);
\* any other error reaches the outer catch of the route ("error": 500).  A
\* job answers nobody.
Answer(p) ==
  CASE p.kind \in {"fix", "release", "scheduled"} -> "none"
    [] p.kind = "lookup" -> "ok"
    [] /\ p.kind \in {"confirm", "check", "hook"}
       /\ p.pc \in {"schedSave", "balSave", "paySave", "notify"} -> "ok"
    [] OTHER -> "error"

FaultIn(p) == Fault(p.kind, p.doc.id, p.pc, Answer(p))

\* A sweep without the try / catch around one item: the error ends the run
CatchAbort(p) == IdleProc

\* The catch nearest to a call that threw: a request answers and ends, a
\* sweep logs the error and goes on to the next item of its batch
Catch(p) == Finish([p EXCEPT !.errorCount = @ + 1])

\* stripe.paymentIntents.retrieve throws in check-status (outer catch, 500),
\* by-intent (inner catch, the stored record is answered) or fixFailedPayments
\* (per-item catch)
StripeRetrieveFails(i) ==
  /\ procs[i].pc = "retrieve"
  /\ Faulty /\ FaultIn(procs[i])
  /\ Become(i, Catch(procs[i]))
  /\ UNCHANGED <<now, tz, payments, stripe, events, balances, credits,
                 regressed, cleared, adjusted, lastCreate, mode, quota,
                 restriction, reply, cron>>

\* POST /confirm-payment whose stripe.paymentIntents.retrieve, its first
\* call, throws: the outer catch answers 500
ConfirmPaymentFails(i, id) ==
  /\ CanStart(i)
  /\ id \in Pids
  /\ Faulty /\ Fault("confirm", id, "retrieve", "error")
  /\ UNCHANGED <<now, tz, payments, stripe, events, balances, procs, credits,
                 regressed, cleared, adjusted, lastCreate, mode, quota,
                 restriction, reply, cron>>

\* create-payment-intent: the retrieve of the existing record's intent
\* throws, and the catch marks the record expired
RetrieveExistingFails(i) ==
  LET p == procs[i] IN
  /\ p.pc = "retrieveExisting"
  /\ Len(stripe) < MaxPayments
  /\ Faulty /\ FaultIn(p)
  /\ Become(i, [SetField(p, "status", "expired")
                  EXCEPT !.pc = "expireSave", !.threw = TRUE])
  /\ UNCHANGED <<now, tz, payments, stripe, events, balances, credits,
                 regressed, cleared, adjusted, lastCreate, mode, quota,
                 restriction, reply, cron>>

\* create-payment-intent: stripe.paymentIntents.create throws, the outer
\* catch answers 500
StripeCreateFails(i) ==
  /\ procs[i].pc = "createIntent"
  /\ Faulty /\ FaultIn(procs[i])
  /\ Become(i, IdleProc)
  /\ UNCHANGED <<now, tz, payments, stripe, events, balances, credits,
                 regressed, cleared, adjusted, lastCreate, mode, quota,
                 restriction, reply, cron>>

\* payment.save() or tokenBalance.save() throws: nothing is written, and the
\* nearest catch ends the work on this document (a request answers, a sweep
\* goes on to the next item)
SaveFails(i) ==
  /\ procs[i].pc \in {"statusSave", "schedSave", "balSave", "paySave"}
  /\ Faulty /\ FaultIn(procs[i])
  /\ Become(i, Catch(procs[i]))
  /\ UNCHANGED <<now, tz, payments, stripe, events, balances, credits,
                 regressed, cleared, adjusted, lastCreate, mode, quota,
                 restriction, reply, cron>>

\* sendEmail delivers the notification
SendEmail(i) ==
  /\ procs[i].pc = "notify"
  /\ Become(i, Finish(procs[i]))
  /\ UNCHANGED <<now, tz, payments, stripe, events, balances, credits,
                 regressed, cleared, adjusted, lastCreate, mode, quota,
                 restriction, obs, reply, cron>>

\* sendEmail throws: sendEmailNotifications and sendTokenAvailableEmail catch
\* and log, processScheduledTokens leaves it to its per-item catch
SendEmailFails(i) ==
  /\ procs[i].pc = "notify"
  /\ Faulty /\ FaultIn(procs[i])
  /\ Become(i, IF procs[i].kind = "scheduled" THEN Catch(procs[i])
                                              ELSE Finish(procs[i]))
  /\ UNCHANGED <<now, tz, payments, stripe, events, balances, credits,
                 regressed, cleared, adjusted, lastCreate, mode, quota,
                 restriction, reply, cron>>

\* -- POST /cashier/tokens/adjust and POST /:userId/tokens/adjust
\* TokenBalance.findOne, new document at 0 if absent, then
\* tokens = Math.max(0, tokens + delta)
AdjustedTokens(tokens, delta) == Max(0, tokens + delta)

AdjustTokens(i, location, delta) ==
  LET t   == <<"u1", "g1", location>>
      row == balances[t]
      old == IF row = NoRow THEN 0 ELSE row
  IN
  /\ CanStart(i)
  /\ adjusted.calls + Cardinality({j \in Procs : procs[j].kind = "adjust"})
       < MaxAdjusts
  /\ Become(i, [StartProc("adjust") EXCEPT
                  !.location = location,
                  !.bal = AdjustedTokens(old, delta),
                  !.balNew = (row = NoRow),
                  !.dirty = IF row = NoRow \/ AdjustedTokens(old, delta) # old
                              THEN {"tokens"} ELSE {},
                  !.pc = "adjustSave"])
  /\ UNCHANGED <<now, tz, payments, stripe, events, balances, credits,
                 regressed, cleared, adjusted, lastCreate, mode, quota,
                 restriction, obs, reply, cron>>

\* balance.save() of the adjustment
AdjustSave(i) ==
  LET p == procs[i]
      t == <<"u1", "g1", p.location>>
  IN
  /\ p.pc = "adjustSave"
  /\ IF "tokens" \in p.dirty /\ ~(p.balNew /\ balances[t] # NoRow)
       THEN /\ balances' = [balances EXCEPT ![t] = p.bal]
            /\ adjusted' =
                 [calls |-> adjusted.calls + 1,
                  changed |-> IF p.bal = Max(0, balances[t])
                                THEN adjusted.changed
                                ELSE adjusted.changed \cup {t}]
       ELSE /\ adjusted' = [adjusted EXCEPT !.calls = @ + 1]
            /\ UNCHANGED balances
  /\ Become(i, IdleProc)
  /\ UNCHANGED <<now, tz, payments, stripe, events, credits, regressed,
                 cleared, lastCreate, mode, quota,
                 restriction, obs, reply, cron>>

\* -- Payment.cleanupExpiredPayments: one updateMany
\* The filter with $lte in place of $lt
ExpirableInclusive(rec) ==
  /\ rec.status \in {"pending", "processing"}
  /\ rec.createdAt <= now - RecencyWindow

Expirable(rec) ==
  /\ rec.status \in {"pending", "processing"}
  /\ rec.createdAt < now - RecencyWindow

CleanupExpiredPayments ==
  /\ mode = "seq" => AllIdle
  /\ \E id \in Pids : Expirable(payments[id])
  /\ payments' = [id \in Pids |->
                    IF Expirable(payments[id])
                      THEN [payments[id] EXCEPT !.status = "expired"]
                      ELSE payments[id]]
  /\ UNCHANGED <<now, tz, stripe, events, balances, procs, credits, regressed,
                 cleared, adjusted, lastCreate, mode, quota,
                 restriction, obs, reply, cron>>

\* ---------------------------------------------------- GET /auth/me/tokens
\* TokenBalance.find({ user }).sort({ game: 1, location: 1 }): the rows of
\* the one user and game, in the order of their locations
SortedTriples == <<<<"u1", "g1", "Cedar Park">>, <<"u1", "g1", "Liberty Hill">>>>

BalanceRows ==
  LET found == SelectSeq(SortedTriples, LAMBDA t : balances[t] # NoRow)
  IN  [k \in DOMAIN found |-> [triple |-> found[k], tokens |-> balances[found[k]]]]

\* Payment.find({ user, status: 'succeeded', tokensScheduledFor: { $exists:
\* true, $ne: null }, tokensAdded: false }), for one game and location
ScheduledPending(t) ==
  {id \in Pids : /\ TripleOf(payments[id]) = t
                 /\ payments[id].status = "succeeded"
                 /\ payments[id].tokensScheduledFor # NoTime
                 /\ ~payments[id].tokensAdded}

\* pendingTokens[key].tokens += payment.tokenPackage.tokens, over S
RECURSIVE TokensOf(_)
TokensOf(S) ==
  IF S = {} THEN 0
  ELSE LET id == Lowest(S) IN payments[id].tokens + TokensOf(S \ {id})

\* The handler's first await: the balance rows
GetTokens(i) ==
  /\ CanStart(i)
  /\ Become(i, [StartProc("tokens") EXCEPT !.batch = BalanceRows,
                                           !.pc = "payFind"])
  /\ UNCHANGED <<now, tz, payments, stripe, events, balances, credits,
                 regressed, cleared, adjusted, lastCreate, mode, quota,
                 restriction, obs, reply, cron>>

\* Its second await, the grouping and the response
PendingFind(i) ==
  LET p == procs[i] IN
  /\ p.kind = "tokens" /\ p.pc = "payFind"
  /\ reply' =
       [of |-> "tokens",
        balances |->
          [k \in DOMAIN p.batch |->
             LET pending == ScheduledPending(p.batch[k].triple) IN
             [triple |-> p.batch[k].triple, tokens |-> p.batch[k].tokens,
              pendingTokens |-> TokensOf(pending),
              tokensScheduledFor |->
                IF pending = {} THEN NoTime
                ELSE payments[Lowest(pending)].tokensScheduledFor]]]
  /\ Become(i, IdleProc)
  /\ UNCHANGED <<now, tz, payments, stripe, events, balances, credits,
                 regressed, cleared, adjusted, lastCreate, mode, quota,
                 restriction, obs, cron>>

\* Purchases at Liberty Hill, the webhooks about them, the release sweeps
\* and the balance page, one handler at a time, the clock running
NextTokens ==
  \/ Tick(Len(SampleTimes))
  \/ \E k \in 1..MaxPayments : ProviderProcessing(k)
  \/ \E k \in 1..MaxPayments : ProviderSucceeds(k)
  \/ \E i \in Procs : NewPurchase(i, 1, "Liberty Hill")
  \/ \E i \in Procs : StripeCreate(i)
  \/ \E i \in Procs : RecordSave(i)
  \/ \E i \in Procs : \E e \in events : Webhook(i, e)
  \/ \E i \in Procs : ProcessScheduledTokensForLocation(i, "Liberty Hill")
  \/ \E i \in Procs : ProcessScheduledTokens(i)
  \/ \E i \in Procs : StatusSave(i)
  \/ \E i \in Procs : ScheduleSave(i)
  \/ \E i \in Procs : BalanceFindOne(i)
  \/ \E i \in Procs : BalanceSave(i)
  \/ \E i \in Procs : TokensAddedSave(i)
  \/ \E i \in Procs : GetTokens(i)
  \/ \E i \in Procs : PendingFind(i)

\* ------------------------------------- the order-capture variant (PayPal)
\* The routes and the Payment schema of the variant that sells tokens through
\* PayPal orders.  Its handlers are taken one at a time, each as one step.
\* An order's id and the id of its capture are the order's index.
NoCapture == 0

\* paymentSchema of the variant: status a free String, default 'CREATED'
NewOrderPayment(user, game, pkg, location, order, at) ==
  [user |-> user, game |-> game, pkg |-> pkg,
   tokens |-> TokenPackages[pkg], location |-> location, intent |-> order,
   capture |-> NoCapture, status |-> "CREATED", tokensAdded |-> FALSE,
   tokensScheduledFor |-> NoTime, metadata |-> NoMetadata, createdAt |-> at]

ExistingOrders(user, game, pkg, location) ==
  {id \in Pids :
     /\ payments[id].user = user /\ payments[id].game = game
     /\ payments[id].tokens = TokenPackages[pkg] /\ payments[id].pkg = pkg
     /\ payments[id].location = location
     /\ payments[id].status \in {"CREATED", "SAVED", "APPROVED",
                                 "PAYER_ACTION_REQUIRED"}
     /\ payments[id].createdAt >= now - RecencyWindow}

\* POST /create-order once the request is accepted.  The run is bounded to
\* quota orders.
CreateOrderFor(game, pkg, location) ==
  LET existing == ExistingOrders("u1", game, pkg, location) IN
  /\ AllIdle
  /\ IF existing # {}
       THEN /\ lastCreate' = [pid |-> Lowest(existing), reused |-> TRUE]
            /\ UNCHANGED <<payments, stripe, credits>>
       ELSE /\ Len(stripe) < quota
            /\ stripe' = Append(stripe, [status |-> "CREATED", err |-> NoError])
            /\ payments' = Append(payments,
                              NewOrderPayment("u1", game, pkg, location,
                                              Len(stripe) + 1, now))
            /\ credits' = Append(credits, 0)
            /\ lastCreate' = [pid |-> Len(payments) + 1, reused |-> FALSE]
  /\ UNCHANGED <<now, tz, events, balances, procs, regressed, cleared,
                 adjusted, mode, quota, restriction, obs, reply, cron>>

\* POST /create-order for the active game
CreateOrder(pkg, location) == CreateOrderFor("g1", pkg, location)

\* The customer approves the order at PayPal
OrderApproved(k) ==
  /\ AllIdle
  /\ k \in 1..Len(stripe) /\ stripe[k].status = "CREATED"
  /\ stripe' = [stripe EXCEPT ![k].status = "APPROVED"]
  /\ Emit(k, {"CHECKOUT.ORDER.APPROVED"})
  /\ UNCHANGED <<now, tz, payments, balances, procs, credits, regressed,
                 cleared, adjusted, lastCreate, mode, quota, restriction,
                 obs, reply, cron>>

\* checkTimeRestriction, then the schedule or addTokensToBalance, on the
\* document rec of payment id
ProcessTokens(id, rec) ==
  LET r == checkTimeRestriction(rec.location, now, tz)
      t == TripleOf(rec)
  IN  IF r.shouldDelay /\ r.scheduledTime # NoTime
        THEN /\ WritePayment(id, [rec EXCEPT
                                    !.tokensScheduledFor = r.scheduledTime,
                                    !.tokensAdded = FALSE])
             /\ UNCHANGED <<balances, credits>>
        ELSE /\ balances' = [balances EXCEPT
                               ![t] = (IF @ = NoRow THEN 0 ELSE @) + rec.tokens]
             /\ credits' = [credits EXCEPT ![id] = @ + 1]
             /\ WritePayment(id, [rec EXCEPT !.tokensAdded = TRUE])

\* POST /capture-order for a record not yet COMPLETED.  PayPal captures an
\* approved order only; any other capture throws and nothing is written.
CaptureOrder(id) ==
  LET rec == payments[id]
      k   == rec.intent
      doc == [rec EXCEPT !.status = "COMPLETED", !.capture = k]
  IN
  /\ AllIdle
  /\ rec.status # "COMPLETED"
  /\ stripe[k].status = "APPROVED"
  /\ stripe' = [stripe EXCEPT ![k].status = "COMPLETED"]
  /\ Emit(k, {"PAYMENT.CAPTURE.COMPLETED"})
  /\ IF ~doc.tokensAdded
       THEN ProcessTokens(id, doc)
       ELSE WritePayment(id, doc) /\ UNCHANGED <<balances, credits>>
  /\ UNCHANGED <<now, tz, procs, adjusted, lastCreate, mode, quota,
                 restriction, obs, reply, cron>>

\* event.event_type values the switch of the webhook route has a case for
PayPalEventTypes == {"PAYMENT.CAPTURE.COMPLETED", "PAYMENT.CAPTURE.DENIED",
                     "PAYMENT.CAPTURE.REFUNDED", "CHECKOUT.ORDER.APPROVED",
                     "CHECKOUT.ORDER.CANCELED"}

\* Payment.findOne({ paypalPaymentId }) / ({ paypalOrderId })
ByCapture(k) == {id \in Pids : payments[id].capture = k}
ByOrder(k)   == {id \in Pids : payments[id].intent = k}

\* POST /webhook of the variant.  verified: whether the request carries a
\* transmission PayPal signed; an event PayPal did not emit carries none.
\* The route reads req.body and goes to the switch: it never looks at the
\* transmission headers.
PayPalWebhook(type, k, verified) ==
  LET found == IF type \in {"CHECKOUT.ORDER.APPROVED",
                            "CHECKOUT.ORDER.CANCELED"}
                 THEN ByOrder(k) ELSE ByCapture(k)
      id    == Lowest(found)
      rec   == payments[id]
  IN
  /\ AllIdle
  /\ k \in 1..Len(stripe)
  /\ verified => [type |-> type, intent |-> k] \in events
  /\ \A d \in Pids : credits[d] < MaxCredits
  /\ reply' = [of |-> "webhook", provider |-> "paypal", type |-> type,
               id |-> k, verified |-> verified,
               answer |-> 200]
  /\ IF found = {}
       THEN UNCHANGED <<payments, balances, credits, regressed, cleared>>
     ELSE IF type = "PAYMENT.CAPTURE.COMPLETED"
       THEN IF rec.status = "COMPLETED"
              THEN UNCHANGED <<payments, balances, credits, regressed, cleared>>
              ELSE ProcessTokens(id, [rec EXCEPT !.status = "COMPLETED"])
     ELSE /\ WritePayment(id,
               CASE type = "PAYMENT.CAPTURE.DENIED" ->
                      [rec EXCEPT !.status = "VOIDED",
                         !.metadata = [failureReason |->
                                         "Payment was denied by PayPal",
                                       errorCode |-> "PAYMENT_DENIED"]]
                 [] type = "CHECKOUT.ORDER.APPROVED" ->
                      [rec EXCEPT !.status = "APPROVED"]
                 [] OTHER -> [rec EXCEPT !.status = "VOIDED"])
          /\ UNCHANGED <<balances, credits>>
  /\ UNCHANGED <<now, tz, stripe, events, procs, adjusted, lastCreate, mode,
                 quota, restriction, obs, cron>>

\* POST /webhook of the card-intent variant with a stripe-signature header
\* that is missing or does not match: constructEvent throws, the route
\* answers 400 before the switch
WebhookRejected(type, k) ==
  /\ AllIdle
  /\ k \in 1..Len(stripe)
  /\ reply' = [of |-> "webhook", provider |-> "stripe", type |-> type,
               id |-> k, verified |-> FALSE, answer |-> 400]
  /\ UNCHANGED <<now, tz, payments, stripe, events, balances, procs, credits,
                 regressed, cleared, adjusted, lastCreate, mode, quota,
                 restriction, obs, cron>>

\* One order, the events about it and any other request to the webhook
\* route, one handler at a time, the clock running
NextWebhook ==
  \/ Tick(Len(SampleTimes))
  \/ \E pkg \in DOMAIN TokenPackages, location \in Locations :
       CreateOrder(pkg, location)
  \/ \E k \in 1..Len(stripe) : OrderApproved(k)
  \/ \E id \in Pids : CaptureOrder(id)
  \/ \E type \in PayPalEventTypes, k \in 1..Len(stripe), verified \in BOOLEAN :
       PayPalWebhook(type, k, verified)
  \/ \E k \in 1..Len(stripe) :
       WebhookRejected("payment_intent.succeeded", k)

\* ---------------------------------- validation of a purchase request
\* The Game collection: an active game and one that is not; any other id
\* names no game
GameStatus == [g1 |-> "active", g2 |-> "inactive"]
GameIds    == {"g1", "g2", "g0"}

\* game.locations of either game: two available locations and a closed one
GameLocations == <<[name |-> "Cedar Park", available |-> TRUE],
                   [name |-> "Liberty Hill", available |-> TRUE],
                   [name |-> "Leander", available |-> FALSE]>>

\* req.body.location: a location as the game names it, the same in another
\* spelling, the closed one, and one the game does not have
RequestLocations == {"Cedar Park", "cedar-park", "Leander", "Round Rock"}

\* req.body.packageIndex: the game's packages and an index past them
PackageIndexes == DOMAIN TokenPackages \cup {Len(TokenPackages) + 1}

\* name.toLowerCase().replace(/\s+/g, '-')
Slug(location) ==
  [k \in DOMAIN Chars(location) |->
     IF Chars(location)[k] = " " THEN "-" ELSE ToLowerCase(Chars(location)[k])]

NoLocation == [name |-> "", available |-> FALSE]

\* game.locations.find(loc => slug(loc.name) === slug(location))
FindLocation(location) ==
  LET found == {k \in DOMAIN GameLocations :
                  Slug(GameLocations[k].name) = Slug(location)}
  IN  IF found = {} THEN NoLocation ELSE GameLocations[Lowest(found)]

\* game.locations.find(loc => loc.name === location)
FindLocationExact(location) ==
  LET found == {k \in DOMAIN GameLocations : GameLocations[k].name = location}
  IN  IF found = {} THEN NoLocation ELSE GameLocations[Lowest(found)]

\* The status create-payment-intent answers with before it looks for an
\* existing record; 200 stands for going on
ValidateIntent(gameId, packageIndex, location) ==
  IF gameId \notin DOMAIN GameStatus THEN 404
  ELSE IF GameStatus[gameId] # "active" THEN 400
  ELSE IF packageIndex \notin DOMAIN TokenPackages THEN 400
  ELSE IF ~FindLocation(location).available THEN 400
  ELSE 200

\* The same for create-order, which does not look at game.status
ValidateOrder(gameId, packageIndex, location) ==
  IF gameId \notin DOMAIN GameStatus THEN 404
  ELSE IF packageIndex \notin DOMAIN TokenPackages THEN 400
  ELSE IF ~FindLocationExact(location).available THEN 400
  ELSE 200

\* The answer of a request that validation turned down
Rejected(route, gameId, packageIndex, location, answer) ==
  /\ reply' = [of |-> route, gameId |-> gameId, packageIndex |-> packageIndex,
               location |-> location, answer |-> answer]
  /\ UNCHANGED <<now, tz, payments, stripe, events, balances, procs, credits,
                 regressed, cleared, adjusted, lastCreate, mode, quota,
                 restriction, obs, cron>>

\* The Payment collection holds the records of one variant of the routes
CardRecords  == \A id \in Pids : "capture" \notin DOMAIN payments[id]
OrderRecords == \A id \in Pids : "capture" \in DOMAIN payments[id]

\* POST /create-payment-intent with any body
CreatePaymentIntentRequest(i, gameId, packageIndex, location) ==
  LET answer == ValidateIntent(gameId, packageIndex, location) IN
  IF answer # 200
    THEN /\ CanStart(i)
         /\ Rejected("create-payment-intent", gameId, packageIndex, location,
                     answer)
    ELSE /\ CardRecords
         /\ CreatePaymentIntent(i, packageIndex, FindLocation(location).name)

\* POST /create-order with any body
CreateOrderRequest(gameId, packageIndex, location) ==
  LET answer == ValidateOrder(gameId, packageIndex, location) IN
  IF answer # 200
    THEN /\ AllIdle
         /\ Rejected("create-order", gameId, packageIndex, location, answer)
    ELSE /\ OrderRecords
         /\ CreateOrderFor(gameId, packageIndex,
                           FindLocationExact(location).name)

\* Purchase requests with any body to either variant of the routes, one
\* handler at a time, the clock running to 11:00
NextValidate ==
  \/ Tick(4)
  \/ \E k \in 1..MaxPayments : ProviderProcessing(k)
  \/ \E i \in Procs, gameId \in GameIds, packageIndex \in PackageIndexes,
        location \in RequestLocations :
       CreatePaymentIntentRequest(i, gameId, packageIndex, location)
  \/ \E i \in Procs : RetrieveExisting(i)
  \/ \E i \in Procs : ExpireSave(i)
  \/ \E i \in Procs : StripeCreate(i)
  \/ \E i \in Procs : RecordSave(i)
  \/ \E gameId \in GameIds, packageIndex \in PackageIndexes,
        location \in RequestLocations :
       CreateOrderRequest(gameId, packageIndex, location)

\* Repeated purchases, some paid and credited or scheduled from their
\* payment_intent.succeeded webhook, some left unpaid, and the cleanup of
\* the unpaid ones, one handler at a time, the clock running
NextCleanup ==
  \/ Tick(Len(SampleTimes))
  \/ \E k \in 1..MaxPayments : ProviderProcessing(k)
  \/ \E k \in 1..MaxPayments : ProviderSucceeds(k)
  \/ \E i \in Procs, pkg \in DOMAIN TokenPackages, l \in Locations :
       CreatePaymentIntent(i, pkg, l)
  \/ \E i \in Procs : RetrieveExisting(i)
  \/ \E i \in Procs : ExpireSave(i)
  \/ \E i \in Procs : StripeCreate(i)
  \/ \E i \in Procs : RecordSave(i)
  \/ \E i \in Procs : \E e \in events :
       e.type = "payment_intent.succeeded" /\ Webhook(i, e)
  \/ \E i \in Procs : StatusSave(i)
  \/ \E i \in Procs : ScheduleSave(i)
  \/ \E i \in Procs : BalanceFindOne(i)
  \/ \E i \in Procs : BalanceSave(i)
  \/ \E i \in Procs : TokensAddedSave(i)
  \/ CleanupExpiredPayments

\* ------------------------------------------------------------ specification
\* Every operation on a PaymentRecord, for the one purchase the quota allows
Next ==
  \/ Tick(Len(SampleTimes))
  \/ \E k \in 1..MaxPayments : ProviderRequiresAction(k)
  \/ \E k \in 1..MaxPayments : ProviderProcessing(k)
  \/ \E k \in 1..MaxPayments : ProviderSucceeds(k)
  \/ \E k \in 1..MaxPayments : ProviderDeclines(k)
  \/ \E k \in 1..MaxPayments : ProviderCancels(k)
  \/ \E i \in Procs, pkg \in DOMAIN TokenPackages, l \in Locations :
       CreatePaymentIntent(i, pkg, l)
  \/ \E i \in Procs : RetrieveExisting(i)
  \/ \E i \in Procs : StripeCreate(i)
  \/ \E i \in Procs : RecordSave(i)
  \/ \E i \in Procs, id \in 1..MaxPayments : ConfirmPayment(i, id)
  \/ \E i \in Procs : PaymentFindOne(i)
  \/ \E i \in Procs, id \in 1..MaxPayments : CheckStatus(i, id)
  \/ \E i \in Procs, id \in 1..MaxPayments : GetByIntent(i, id)
  \/ \E i \in Procs : StripeRetrieve(i)
  \/ \E i \in Procs : \E e \in events : Webhook(i, e)
  \/ \E i \in Procs : FixFailedPayments(i)
  \/ \E i \in Procs, l \in Locations : ProcessScheduledTokensForLocation(i, l)
  \/ \E i \in Procs : StatusSave(i)
  \/ \E i \in Procs : ScheduleSave(i)
  \/ \E i \in Procs : BalanceFindOne(i)
  \/ \E i \in Procs : BalanceSave(i)
  \/ \E i \in Procs : TokensAddedSave(i)
  \/ CleanupExpiredPayments

\* Every operation that reads or writes a PaymentRecord, the handlers
\* interleaving, the clock standing still
NextRace ==
  \/ \E k \in 1..MaxPayments : ProviderRequiresAction(k)
  \/ \E k \in 1..MaxPayments : ProviderProcessing(k)
  \/ \E k \in 1..MaxPayments : ProviderSucceeds(k)
  \/ \E k \in 1..MaxPayments : ProviderDeclines(k)
  \/ \E k \in 1..MaxPayments : ProviderCancels(k)
  \/ \E i \in Procs, pkg \in DOMAIN TokenPackages, l \in Locations :
       CreatePaymentIntent(i, pkg, l)
  \/ \E i \in Procs : StripeCreate(i)
  \/ \E i \in Procs : RecordSave(i)
  \/ \E i \in Procs, id \in 1..MaxPayments : ConfirmPayment(i, id)
  \/ \E i \in Procs : PaymentFindOne(i)
  \/ \E i \in Procs, id \in 1..MaxPayments : CheckStatus(i, id)
  \/ \E i \in Procs, id \in 1..MaxPayments : GetByIntent(i, id)
  \/ \E i \in Procs : StripeRetrieve(i)
  \/ \E i \in Procs : \E e \in events : Webhook(i, e)
  \/ \E i \in Procs : FixFailedPayments(i)
  \/ \E i \in Procs, l \in Locations : ProcessScheduledTokensForLocation(i, l)
  \/ \E i \in Procs : StatusSave(i)
  \/ \E i \in Procs : ScheduleSave(i)
  \/ \E i \in Procs : BalanceFindOne(i)
  \/ \E i \in Procs : BalanceSave(i)
  \/ \E i \in Procs : TokensAddedSave(i)

\* One purchase and the events that report its success: the provider takes
\* the payment, and payment_intent.succeeded webhooks, confirm-payment,
\* check-status, the sweep and the release job run one after another, any
\* number of times in any order
NextEvents ==
  \/ Tick(Len(SampleTimes))
  \/ \E k \in 1..MaxPayments : ProviderProcessing(k)
  \/ \E k \in 1..MaxPayments : ProviderSucceeds(k)
  \/ \E i \in Procs, pkg \in DOMAIN TokenPackages, l \in Locations :
       CreatePaymentIntent(i, pkg, l)
  \/ \E i \in Procs : RetrieveExisting(i)
  \/ \E i \in Procs : StripeCreate(i)
  \/ \E i \in Procs : RecordSave(i)
  \/ \E i \in Procs, id \in 1..MaxPayments : ConfirmPayment(i, id)
  \/ \E i \in Procs : PaymentFindOne(i)
  \/ \E i \in Procs, id \in 1..MaxPayments : CheckStatus(i, id)
  \/ \E i \in Procs : StripeRetrieve(i)
  \/ \E i \in Procs : \E e \in events :
       e.type = "payment_intent.succeeded" /\ Webhook(i, e)
  \/ \E i \in Procs : FixFailedPayments(i)
  \/ \E i \in Procs, l \in Locations : ProcessScheduledTokensForLocation(i, l)
  \/ \E i \in Procs : StatusSave(i)
  \/ \E i \in Procs : ScheduleSave(i)
  \/ \E i \in Procs : BalanceFindOne(i)
  \/ \E i \in Procs : BalanceSave(i)
  \/ \E i \in Procs : TokensAddedSave(i)

\* Purchases started again and again while they are polled, swept and
\* declined but never paid, one handler at a time
NextCreate ==
  \/ Tick(4)
  \/ \E k \in 1..MaxPayments : ProviderProcessing(k)
  \/ \E k \in 1..MaxPayments : ProviderDeclines(k)
  \/ \E i \in Procs, pkg \in DOMAIN TokenPackages, l \in Locations :
       CreatePaymentIntent(i, pkg, l)
  \/ \E i \in Procs : RetrieveExisting(i)
  \/ \E i \in Procs : ExpireSave(i)
  \/ \E i \in Procs : StripeCreate(i)
  \/ \E i \in Procs : RecordSave(i)
  \/ \E i \in Procs, id \in 1..MaxPayments : ConfirmPayment(i, id)
  \/ \E i \in Procs : PaymentFindOne(i)
  \/ \E i \in Procs, id \in 1..MaxPayments : CheckStatus(i, id)
  \/ \E i \in Procs, id \in 1..MaxPayments : GetByIntent(i, id)
  \/ \E i \in Procs : StripeRetrieve(i)
  \/ \E i \in Procs : FixFailedPayments(i)
  \/ \E i \in Procs : StatusSave(i)
  \/ CleanupExpiredPayments

\* Purchases of the first package at Cedar Park paid and credited from
\* payment_intent.succeeded webhooks, the handlers interleaving, next to an
\* administrative adjustment
NextCredit ==
  \/ \E k \in 1..MaxPayments : ProviderProcessing(k)
  \/ \E k \in 1..MaxPayments : ProviderSucceeds(k)
  \/ \E i \in Procs, pkg \in DOMAIN TokenPackages :
       CreatePaymentIntent(i, pkg, "Cedar Park")
  \/ \E i \in Procs : StripeCreate(i)
  \/ \E i \in Procs : RecordSave(i)
  \/ \E i \in Procs : \E e \in events :
       e.type = "payment_intent.succeeded" /\ Webhook(i, e)
  \/ \E i \in Procs : StatusSave(i)
  \/ \E i \in Procs : BalanceFindOne(i)
  \/ \E i \in Procs : BalanceSave(i)
  \/ \E i \in Procs : TokensAddedSave(i)
  \/ \E i \in Procs, d \in (0 - MaxDelta)..MaxDelta :
       AdjustTokens(i, "Cedar Park", Whole(d))
  \/ \E i \in Procs : AdjustSave(i)

\* Repeated purchases of the first package at Cedar Park that are polled,
\* confirmed, swept and declined but never paid, while calls to the provider
\* may fail
NextFault ==
  \/ \E k \in 1..MaxPayments : ProviderProcessing(k)
  \/ \E k \in 1..MaxPayments : ProviderDeclines(k)
  \/ \E i \in Procs : CreatePaymentIntent(i, 1, "Cedar Park")
  \/ \E i \in Procs : RetrieveExisting(i)
  \/ \E i \in Procs : RetrieveExistingFails(i)
  \/ \E i \in Procs : ExpireSave(i)
  \/ \E i \in Procs : StripeCreate(i)
  \/ \E i \in Procs : StripeCreateFails(i)
  \/ \E i \in Procs : RecordSave(i)
  \/ \E i \in Procs, id \in 1..MaxPayments : ConfirmPayment(i, id)
  \/ \E i \in Procs, id \in 1..MaxPayments : ConfirmPaymentFails(i, id)
  \/ \E i \in Procs : PaymentFindOne(i)
  \/ \E i \in Procs, id \in 1..MaxPayments : CheckStatus(i, id)
  \/ \E i \in Procs, id \in 1..MaxPayments : GetByIntent(i, id)
  \/ \E i \in Procs : StripeRetrieve(i)
  \/ \E i \in Procs : StripeRetrieveFails(i)
  \/ \E i \in Procs : FixFailedPayments(i)
  \/ \E i \in Procs : StatusSave(i)

\* Two purchases of the first package at Liberty Hill, their success webhooks and the three sweeps,
\* one handler at a time, the clock running, while calls to the provider and
\* to the database may fail
NextSweep ==
  \/ Tick(Len(SampleTimes))
  \/ \E k \in 1..MaxPayments : ProviderProcessing(k)
  \/ \E k \in 1..MaxPayments : ProviderSucceeds(k)
  \/ \E i \in Procs : CreatePaymentIntent(i, 1, "Liberty Hill")
  \/ \E i \in Procs : RetrieveExisting(i)
  \/ \E i \in Procs : ExpireSave(i)
  \/ \E i \in Procs : StripeCreate(i)
  \/ \E i \in Procs : RecordSave(i)
  \/ \E i \in Procs : \E e \in events :
       e.type = "payment_intent.succeeded" /\ Webhook(i, e)
  \/ \E i \in Procs : FixFailedPayments(i)
  \/ \E i \in Procs : ProcessScheduledTokensForLocation(i, "Liberty Hill")
  \/ \E i \in Procs : ProcessScheduledTokens(i)
  \/ \E i \in Procs : StripeRetrieve(i)
  \/ \E i \in Procs : StripeRetrieveFails(i)
  \/ \E i \in Procs : StatusSave(i)
  \/ \E i \in Procs : ScheduleSave(i)
  \/ \E i \in Procs : BalanceFindOne(i)
  \/ \E i \in Procs : BalanceSave(i)
  \/ \E i \in Procs : TokensAddedSave(i)
  \/ \E i \in Procs : SaveFails(i)

\* One purchase, its success webhook, confirm-payment, check-status and the
\* release sweeps, one handler at a time, the clock running, while a save or
\* the sending of a notification may fail
NextNotify ==
  \/ Tick(Len(SampleTimes))
  \/ \E k \in 1..MaxPayments : ProviderProcessing(k)
  \/ \E k \in 1..MaxPayments : ProviderSucceeds(k)
  \/ \E i \in Procs, pkg \in DOMAIN TokenPackages, l \in Locations :
       NewPurchase(i, pkg, l)
  \/ \E i \in Procs : StripeCreate(i)
  \/ \E i \in Procs : RecordSave(i)
  \/ \E i \in Procs, id \in 1..MaxPayments : ConfirmPayment(i, id)
  \/ \E i \in Procs : PaymentFindOne(i)
  \/ \E i \in Procs, id \in 1..MaxPayments : CheckStatus(i, id)
  \/ \E i \in Procs : StripeRetrieve(i)
  \/ \E i \in Procs : \E e \in events :
       e.type = "payment_intent.succeeded" /\ Webhook(i, e)
  \/ \E i \in Procs, l \in Locations : ProcessScheduledTokensForLocation(i, l)
  \/ \E i \in Procs : ProcessScheduledTokens(i)
  \/ \E i \in Procs : StatusSave(i)
  \/ \E i \in Procs : ScheduleSave(i)
  \/ \E i \in Procs : BalanceFindOne(i)
  \/ \E i \in Procs : BalanceSave(i)
  \/ \E i \in Procs : TokensAddedSave(i)
  \/ \E i \in Procs : SaveFails(i)
  \/ \E i \in Procs : SendEmail(i)
  \/ \E i \in Procs : SendEmailFails(i)

\* checkTimeRestriction(location), called on its own at the current time
CheckTimeRestriction(location) ==
  /\ restriction' = [location |-> location, at |-> now,
                      result |-> checkTimeRestriction(location, now, tz)]
  /\ UNCHANGED <<now, tz, payments, stripe, events, balances, procs, credits,
                 regressed, cleared, adjusted, lastCreate, mode, quota, obs, reply,
                 cron>>

NextTime == \E location \in LocationNames : CheckTimeRestriction(location)

\* The three status functions, each called on its own with what the provider
\* reports for the one intent or order
Mapped(name, result) ==
  /\ Len(stripe) = 1
  /\ reply' = [of |-> name, status |-> stripe[1].status,
               err |-> stripe[1].err, result |-> result]
  /\ UNCHANGED <<now, tz, payments, stripe, events, balances, procs, credits,
                 regressed, cleared, adjusted, lastCreate, mode, quota,
                 restriction, obs, cron>>

MapStripeStatusToDbStatus ==
  Mapped("mapStripeStatusToDbStatus",
         mapStripeStatusToDbStatus(stripe[1].status))

MapPayPalStatus ==
  Mapped("mapPayPalStatus", mapPayPalStatus(stripe[1].status))

GetPreciseDisplayStatus ==
  Mapped("getPreciseDisplayStatus",
         getPreciseDisplayStatus(stripe[1].status, stripe[1].err))

NextMap ==
  \/ MapStripeStatusToDbStatus
  \/ MapPayPalStatus
  \/ GetPreciseDisplayStatus

\* One purchase, its success webhook and the two release sweeps, one handler
\* at a time, the clock running
NextRelease ==
  \/ Tick(Len(SampleTimes))
  \/ \E k \in 1..MaxPayments : ProviderProcessing(k)
  \/ \E k \in 1..MaxPayments : ProviderSucceeds(k)
  \/ \E i \in Procs, pkg \in DOMAIN TokenPackages, l \in Locations :
       CreatePaymentIntent(i, pkg, l)
  \/ \E i \in Procs : StripeCreate(i)
  \/ \E i \in Procs : RecordSave(i)
  \/ \E i \in Procs : \E e \in events :
       e.type = "payment_intent.succeeded" /\ Webhook(i, e)
  \/ \E i \in Procs, l \in Locations : ProcessScheduledTokensForLocation(i, l)
  \/ \E i \in Procs : ProcessScheduledTokens(i)
  \/ \E i \in Procs : StatusSave(i)
  \/ \E i \in Procs : ScheduleSave(i)
  \/ \E i \in Procs : BalanceFindOne(i)
  \/ \E i \in Procs : BalanceSave(i)
  \/ \E i \in Procs : TokensAddedSave(i)

\* One purchase, its webhooks, and the jobs cron fires as the clock runs
NextLive ==
  \/ CronTick(Len(SampleTimes))
  \/ \E k \in 1..MaxPayments : ProviderProcessing(k)
  \/ \E k \in 1..MaxPayments : ProviderSucceeds(k)
  \/ \E i \in Procs, pkg \in DOMAIN TokenPackages, l \in Locations :
       NewPurchase(i, pkg, l)
  \/ \E i \in Procs : StripeCreate(i)
  \/ \E i \in Procs : RecordSave(i)
  \/ \E i \in Procs : \E e \in events : Webhook(i, e)
  \/ \E i \in Procs : StripeRetrieve(i)
  \/ \E i \in Procs : StatusSave(i)
  \/ \E i \in Procs : ScheduleSave(i)
  \/ \E i \in Procs : BalanceFindOne(i)
  \/ \E i \in Procs : BalanceSave(i)
  \/ \E i \in Procs : TokensAddedSave(i)

\* One purchase, its success webhook, and the jobs cron fires as the clock
\* runs, while a save may fail
NextRetry ==
  \/ CronTick(Len(SampleTimes))
  \/ \E k \in 1..MaxPayments : ProviderProcessing(k)
  \/ \E k \in 1..MaxPayments : ProviderSucceeds(k)
  \/ \E i \in Procs, pkg \in DOMAIN TokenPackages, l \in Locations :
       NewPurchase(i, pkg, l)
  \/ \E i \in Procs : StripeCreate(i)
  \/ \E i \in Procs : RecordSave(i)
  \/ \E i \in Procs : \E e \in events :
       e.type = "payment_intent.succeeded" /\ Webhook(i, e)
  \/ \E i \in Procs : StripeRetrieve(i)
  \/ \E i \in Procs : StatusSave(i)
  \/ \E i \in Procs : ScheduleSave(i)
  \/ \E i \in Procs : BalanceFindOne(i)
  \/ \E i \in Procs : BalanceSave(i)
  \/ \E i \in Procs : TokensAddedSave(i)
  \/ \E i \in Procs : SaveFails(i)

\* One purchase, its success webhook, init() called any number of times at
\* any time, and the jobs cron fires as the clock runs
NextCron ==
  \/ CronInit
  \/ CronTick(Len(SampleTimes))
  \/ \E k \in 1..MaxPayments : ProviderProcessing(k)
  \/ \E k \in 1..MaxPayments : ProviderSucceeds(k)
  \/ \E i \in Procs, pkg \in DOMAIN TokenPackages, l \in Locations :
       NewPurchase(i, pkg, l)
  \/ \E i \in Procs : StripeCreate(i)
  \/ \E i \in Procs : RecordSave(i)
  \/ \E i \in Procs : \E e \in events :
       e.type = "payment_intent.succeeded" /\ Webhook(i, e)
  \/ \E i \in Procs : StripeRetrieve(i)
  \/ \E i \in Procs : StatusSave(i)
  \/ \E i \in Procs : ScheduleSave(i)
  \/ \E i \in Procs : BalanceFindOne(i)
  \/ \E i \in Procs : BalanceSave(i)
  \/ \E i \in Procs : TokensAddedSave(i)

\* A handler or job in flight takes its next step
HandlerStep ==
  \E i \in Procs :
    \/ StripeCreate(i) \/ RecordSave(i) \/ StripeRetrieve(i)
    \/ StatusSave(i) \/ ScheduleSave(i)
    \/ BalanceFindOne(i) \/ BalanceSave(i) \/ TokensAddedSave(i)

Spec       == Init /\ [][NextRace]_vars
SpecSeq    == InitSeq /\ [][Next]_vars
SpecEvents == InitSeq /\ [][NextEvents]_vars
SpecCreate == InitCreate /\ [][NextCreate]_vars
SpecCredit == InitCredit /\ [][NextCredit]_vars
SpecTime   == InitTime /\ [][NextTime]_vars
SpecRelease == InitSeq /\ [][NextRelease]_vars
SpecFault  == InitCreate /\ [][NextFault]_vars
SpecSweep  == InitCreate /\ [][NextSweep]_vars
SpecNotify == InitNotify /\ [][NextNotify]_vars
SpecMap    == InitMap /\ [][NextMap]_vars
SpecWebhook == InitSeq /\ [][NextWebhook]_vars
SpecTokens == InitCreate /\ [][NextTokens]_vars
SpecValidate == InitCreate /\ [][NextValidate]_vars
SpecCleanup == InitCreate /\ [][NextCleanup]_vars
SpecCron   == InitCron /\ [][NextCron]_vars
\* The database and the provider answer every call, and the clock and cron
\* keep running
SpecLive   == /\ InitSeq /\ [][NextLive]_vars
              /\ WF_vars(HandlerStep)
              /\ SF_vars(CronTick(Len(SampleTimes)))
\* The same, with the saves that fail: a call that is made returns, and the
\* clock and cron keep running
SpecRetry  == /\ InitRetry /\ [][NextRetry]_vars
              /\ WF_vars(HandlerStep)
              /\ SF_vars(CronTick(Len(SampleTimes)))

\* ------------------------------------------------------------------ claims
\* The tokens a triple holds, an absent row counting as none
Tokens(t) == IF balances[t] = NoRow THEN 0 ELSE balances[t]

RECURSIVE SumTokens(_)
SumTokens(S) ==
  IF S = {} THEN 0
  ELSE LET id == CHOOSE x \in S : TRUE
       IN  payments[id].tokens + SumTokens(S \ {id})

\* The records of a triple whose tokens are marked as added
AddedTo(t) ==
  {id \in Pids : payments[id].tokensAdded /\ TripleOf(payments[id]) = t}

\* This step writes the balance on behalf of the record
Credits(id) == credits'[id] > credits[id]

\* C1: triggers racing on one record, whose status no stale update has
\* taken back from succeeded, write its tokens to the balance at most once.
C1_CreditedOnce ==
  \A id \in Pids : id \notin regressed => credits[id] <= 1

\* C2 as stated: whenever the events that report a success have run one
\* after another, a record that reached succeeded has been credited exactly
\* once and has tokensAdded true.
C2_ExactlyOnce ==
  AllIdle =>
    \A id \in Pids :
      payments[id].status = "succeeded"
        => (credits[id] = 1 /\ payments[id].tokensAdded)

\* C2 amended: with the events that report a success run one after another,
\* a record is credited at most once, and between two of them a succeeded
\* record is either credited exactly once with tokensAdded true, or not
\* credited at all, with tokensAdded false and a release time stored.
C2_OnceOrScheduled ==
  \A id \in Pids :
    /\ credits[id] <= 1
    /\ (AllIdle /\ payments[id].status = "succeeded") =>
         \/ credits[id] = 1 /\ payments[id].tokensAdded
         \/ /\ credits[id] = 0
            /\ ~payments[id].tokensAdded
            /\ payments[id].tokensScheduledFor # NoTime

\* C2 witness: a record first scheduled by one succeeded-reporting event and
\* then credited, once, by a later one
C2_ScheduledThenCredited ==
  /\ AllIdle
  /\ \E id \in Pids :
       /\ payments[id].status = "succeeded"
       /\ payments[id].tokensScheduledFor # NoTime
       /\ payments[id].tokensAdded
       /\ credits[id] = 1

\* C3: a record that holds a release time (and was never taken back from
\* succeeded) is not credited by any trigger before that time.
C3_NoEarlyCredit ==
  [][\A id \in Pids :
       (/\ id \notin regressed
        /\ payments[id].tokensScheduledFor # NoTime
        /\ Credits(id))
         => now >= payments[id].tokensScheduledFor]_vars

\* C4: no step writes the status of a succeeded record back to processing
\* or pending.
C4_NoRegression ==
  [][\A id \in Pids :
       payments[id].status = "succeeded"
         => payments'[id].status \notin {"processing", "pending"}]_vars

\* A create-payment-intent call starts (its findOne) or answers in this step
Starts(i)   == procs[i].kind = "idle" /\ procs'[i].kind = "create"
Responds(i) == procs[i].kind = "create" /\ procs'[i].kind = "idle"

SamePurchase(rec, p) ==
  /\ rec.user = "u1" /\ rec.game = "g1"
  /\ rec.pkg = p.pkg /\ rec.location = p.location

IntentValid(id) ==
  stripe[payments[id].intent].status = "requires_payment_method"

\* C5 as stated: a call that answers for the purchase of the record the
\* previous call answered with, no more than 30 minutes after that record
\* was created (so no more than 30 minutes after the previous call), while
\* its intent is still valid at the provider, answers with the same record
\* and creates none.
C5_SameIntent ==
  [][\A i \in Procs :
       (/\ Responds(i)
        /\ lastCreate.pid # NoPid
        /\ SamePurchase(payments[lastCreate.pid], procs[i])
        /\ now - payments[lastCreate.pid].createdAt <= RecencyWindow
        /\ IntentValid(lastCreate.pid))
         => /\ lastCreate'.pid = lastCreate.pid
            /\ Len(payments') = Len(payments)]_vars

\* C5 amended: a call for the purchase of the record the previous call
\* answered with finds that record when it is still pending or processing,
\* was created no more than 30 minutes before, and no older record of the
\* purchase qualifies; a call that found a record whose intent is valid at
\* the provider answers with it and creates neither record nor intent.
C5_ReusesLiveRecord ==
  [][\A i \in Procs :
       /\ (/\ Starts(i)
           /\ lastCreate.pid # NoPid
           /\ SamePurchase(payments[lastCreate.pid], procs'[i])
           /\ payments[lastCreate.pid].status \in {"pending", "processing"}
           /\ now - payments[lastCreate.pid].createdAt <= RecencyWindow
           /\ \A id \in Pids :
                (/\ id < lastCreate.pid
                 /\ SamePurchase(payments[id], procs'[i])
                 /\ payments[id].status \in {"pending", "processing"})
                  => now - payments[id].createdAt > RecencyWindow)
            => /\ procs'[i].pc = "retrieveExisting"
               /\ procs'[i].doc.id = lastCreate.pid
       /\ (/\ procs[i].pc = "retrieveExisting"
           /\ procs'[i] # procs[i]
           /\ IntentValid(procs[i].doc.id))
            => /\ Responds(i)
               /\ lastCreate' = [pid |-> procs[i].doc.id, reused |-> TRUE]
               /\ payments' = payments
               /\ stripe' = stripe]_vars

\* C5 witness: the latest call answered with the record of the call before
C5_Reused ==
  /\ AllIdle
  /\ lastCreate.reused
  /\ payments[lastCreate.pid].status \in {"pending", "processing"}
  /\ IntentValid(lastCreate.pid)

\* C6: a step that writes the balance on behalf of a record, or that sets
\* its tokensAdded to true, finds the record's persisted status succeeded.
C6_CreditOnlySucceeded ==
  [][\A id \in Pids :
       (\/ Credits(id)
        \/ ~payments[id].tokensAdded /\ payments'[id].tokensAdded)
         => payments[id].status = "succeeded"]_vars

\* C7: no step writes tokensAdded of a record from true back to false (so
\* it goes from false to true at most once).
C7_NeverReverts ==
  [][\A id \in Pids :
       payments[id].tokensAdded => payments'[id].tokensAdded]_vars

\* C8: a step that takes tokensScheduledFor of a record from a release time
\* to null is a step that sets its tokensAdded from false to true.
C8_ClearedWithCredit ==
  [][\A id \in Pids :
       (/\ payments[id].tokensScheduledFor # NoTime
        /\ payments'[id].tokensScheduledFor = NoTime)
         => (~payments[id].tokensAdded /\ payments'[id].tokensAdded)]_vars

\* C8 witness: a record whose release time was cleared, its tokens added
C8_Released ==
  \E id \in cleared :
    /\ payments[id].tokensScheduledFor = NoTime
    /\ payments[id].tokensAdded
    /\ credits[id] = 1

\* C9: with no administrative adjustment made and no record credited twice,
\* once the interleaved handlers are done the balance of every triple is the
\* sum of the tokens of its records marked as added.
C9_Additive ==
  (/\ AllIdle
   /\ adjusted.calls = 0
   /\ \A id \in Pids : credits[id] <= 1)
    => \A t \in Triples : Tokens(t) = SumTokens(AddedTo(t))

\* C10: every TokenBalance row holds a non-negative integer, the deltas of
\* the adjustments being integers.
C10_NonNegative ==
  \A t \in Triples :
    balances[t] = NoRow \/ (balances[t] >= 0 /\ IsInteger(balances[t]))

\* The latest evaluation: its minute of the day and its calendar day
Evaluated(names) ==
  restriction # NoRestriction /\ restriction.location \in names
MinuteOfDay == restriction.at % Day
DayOf       == restriction.at \div Day

\* C11: for a Cedar Park name, shouldDelay is true exactly from 03:00 to
\* 10:59, and the release time is then 11:00 Texas time on the next day.
C11_CedarWindow ==
  Evaluated(CedarNames) =>
    /\ restriction.result.shouldDelay
          <=> (3 * 60 <= MinuteOfDay /\ MinuteOfDay < 11 * 60)
    /\ restriction.result.shouldDelay
          => restriction.result.scheduledTime = (DayOf + 1) * Day + 11 * 60

\* C12: for a Liberty Hill name, shouldDelay is true exactly from 23:00 to
\* 09:59; the release time is 10:00 Texas time, on the next day from 23:00
\* on and on the same day before 10:00.
C12_LibertyWindow ==
  Evaluated(LibertyNames) =>
    /\ restriction.result.shouldDelay
          <=> (MinuteOfDay >= 23 * 60 \/ MinuteOfDay < 10 * 60)
    /\ restriction.result.shouldDelay
          => restriction.result.scheduledTime =
               (IF MinuteOfDay >= 23 * 60 THEN DayOf + 1 ELSE DayOf) * Day
                 + 10 * 60

\* C13: a name of neither category never delays, a name of a category does
\* not delay outside its window, and a release time is given exactly when
\* shouldDelay is true.
C13_NoDelayOutside ==
  restriction # NoRestriction =>
    /\ Evaluated(OtherNames) => ~restriction.result.shouldDelay
    /\ (Evaluated(CedarNames)
          /\ (MinuteOfDay < 3 * 60 \/ MinuteOfDay >= 11 * 60))
         => ~restriction.result.shouldDelay
    /\ (Evaluated(LibertyNames)
          /\ 10 * 60 <= MinuteOfDay /\ MinuteOfDay < 23 * 60)
         => ~restriction.result.shouldDelay
    /\ restriction.result.shouldDelay
          <=> restriction.result.scheduledTime # NoTime

\* C13 witness: a name of neither category evaluated at 05:00, inside both
\* windows, on the second day
C13_OtherInsideWindows ==
  /\ Evaluated(OtherNames)
  /\ MinuteOfDay = 5 * 60 /\ DayOf = 1
  /\ ~restriction.result.shouldDelay
  /\ restriction.result.scheduledTime = NoTime

\* A run of fixFailedPayments ends in this step
FixEnds(i) == procs[i].kind = "fix" /\ procs'[i].kind = "idle"

\* C14: when a run of fixFailedPayments ends, every record it found stuck in
\* processing with its intent succeeded at the provider has status
\* succeeded and, if the evaluator does not delay, its tokens added once to
\* the balance and tokensAdded true; if it delays, a release time instead.
C14_SweepConverges ==
  [][\A i \in Procs : FixEnds(i) =>
       \A id \in obs.stuck :
         /\ payments'[id].status = "succeeded"
         /\ IF checkTimeRestriction(payments[id].location, now, tz).shouldDelay
              THEN /\ payments'[id].tokensScheduledFor # NoTime
                   /\ ~payments'[id].tokensAdded
                   /\ credits'[id] = 0
              ELSE /\ payments'[id].tokensAdded
                   /\ credits'[id] = 1]_vars

\* C14 witness: a record the latest sweep found stuck, now succeeded and
\* credited once
C14_StuckCredited ==
  /\ AllIdle
  /\ \E id \in obs.stuck :
       /\ payments[id].status = "succeeded"
       /\ payments[id].tokensAdded
       /\ credits[id] = 1

\* The record is succeeded, not credited, and its release time has arrived
Due(id) ==
  /\ id \in Pids
  /\ payments[id].status = "succeeded"
  /\ ~payments[id].tokensAdded
  /\ payments[id].tokensScheduledFor # NoTime
  /\ payments[id].tokensScheduledFor <= now

\* C15: with the database and the provider answering and cron firing its jobs
\* as the clock runs, a record that is succeeded, not credited and whose
\* release time has arrived is eventually credited.
C15_DueIsCredited ==
  \A id \in 1..MaxPayments :
    Due(id) ~> (id \in Pids /\ payments[id].tokensAdded /\ credits[id] >= 1)

\* C15 witness: a record credited by a job after its release time arrived
C15_CreditedAfterDue ==
  \E id \in Pids :
    /\ payments[id].tokensAdded
    /\ credits[id] = 1
    /\ payments[id].tokensScheduledFor # NoTime
    /\ payments[id].tokensScheduledFor <= now
    /\ \E i \in Procs : procs[i].kind = "fix"

\* A release sweep (the cron job of a location or processScheduledTokens)
\* is at work on the record
Releasing(i, id) ==
  procs[i].kind \in {"release", "scheduled"} /\ procs[i].doc.id = id

\* C16: a release sweep writes the balance only for a record that is not
\* credited and whose release time is set and has come, and the save that
\* marks its tokens as added leaves no release time on the record.
C16_ReleasesExactlyDue ==
  [][\A i \in Procs, id \in Pids :
       Releasing(i, id) =>
         /\ Credits(id) =>
              /\ ~payments[id].tokensAdded
              /\ payments[id].tokensScheduledFor # NoTime
              /\ payments[id].tokensScheduledFor <= now
         /\ (~payments[id].tokensAdded /\ payments'[id].tokensAdded) =>
              payments'[id].tokensScheduledFor = NoTime]_vars


\* C17: every record whose stored status is failed has a failure reason and
\* an error code in its metadata, whichever handler wrote the status, also
\* when the provider reported requires_payment_method with no
\* last_payment_error.
C17_FailedHasReason ==
  \A id \in Pids :
    payments[id].status = "failed" =>
      /\ payments[id].metadata.failureReason # "none"
      /\ payments[id].metadata.errorCode # "none"

\* C18: a provider call that fails never makes a handler store another
\* status: after the failed call the record the handler has at hand keeps
\* the status it had before the call (in create-payment-intent, by-intent,
\* check-status, confirm-payment and fixFailedPayments).
C18_ProviderErrorKeepsStatus ==
  [][\A i \in Procs :
       (procs[i].threw /\ procs[i].doc.id \in Pids) =>
         payments'[procs[i].doc.id].status = payments[procs[i].doc.id].status]_vars

Sweeps == {"fix", "release", "scheduled"}

\* C19: a sweep (fixFailedPayments, the release job, processScheduledTokens)
\* that still has records in its batch does not end and does not skip one,
\* whatever happens to the record at hand, a provider call or a save that
\* throws included: each of its steps stays on the record at hand or takes
\* up the next record of the batch.
C19_SweepContinues ==
  [][\A i \in Procs :
       (procs[i].kind \in Sweeps /\ procs[i].batch # <<>>
          /\ procs'[i] # procs[i]) =>
         /\ procs'[i].kind = procs[i].kind
         /\ \/ /\ procs'[i].doc.id = procs[i].doc.id
               /\ procs'[i].batch = procs[i].batch
            \/ /\ procs'[i].doc = Head(procs[i].batch)
               /\ procs'[i].batch = Tail(procs[i].batch)]_vars

\* C19 witness: a sweep in which a call failed on the first record is about
\* to mark the second record, whose tokens it has added
C19_ContinuedAfterError ==
  \E i \in Procs :
    /\ procs[i].kind \in Sweeps
    /\ procs[i].errorCount >= 1
    /\ \E f \in obs.failed : f.kind = procs[i].kind /\ f.id = 1
    /\ procs[i].doc.id = 2
    /\ procs[i].pc = "paySave"
    /\ credits[2] >= 1

\* Persisting the credit of the record failed (the balance save or the save
\* of tokensAdded threw), the failures of the run are over, and the clock has
\* a later cron minute at which the evaluator does not delay the location
CreditFailed(id) ==
  /\ id \in Pids
  /\ \E f \in obs.failed : f.id = id /\ f.pc \in {"balSave", "paySave"}
  /\ obs.faults = MaxFaults
  /\ \E n \in 1..Len(SampleTimes) :
       /\ SampleTimes[n] > now
       /\ ~checkTimeRestriction(payments[id].location, SampleTimes[n],
                                tz).shouldDelay

\* C20: when the balance save or the save of tokensAdded throws, the record
\* is left as it was, succeeded and with tokensAdded false (unless another
\* job has credited and marked it in the meantime), and, cron firing its
\* jobs, a later sweep takes it up and credits it (once the evaluator does
\* not delay its location).
C20_CreditRetried ==
  /\ [][\A i \in Procs :
          (procs[i].pc \in {"balSave", "paySave"} /\ obs'.faults > obs.faults) =>
            LET id == procs[i].doc.id IN
            /\ payments'[id] = payments[id]
            /\ payments'[id].status = "succeeded"
            /\ \/ ~payments'[id].tokensAdded
               \/ credits[id] > (IF procs[i].pc = "paySave" THEN 1 ELSE 0)]_vars
  /\ \A id \in 1..MaxPayments :
       CreditFailed(id) ~>
         (id \in Pids /\ payments[id].tokensAdded /\ credits[id] >= 1)

\* C20 witness: the balance save of a record failed, and the record is
\* credited once and marked
C20_CreditedAfterFailure ==
  \E id \in Pids :
    /\ \E f \in obs.failed : f.id = id /\ f.pc = "balSave"
    /\ payments[id].status = "succeeded"
    /\ payments[id].tokensAdded
    /\ credits[id] = 1

\* The call of handler i at its current step throws in this step
Throws(i) == obs'.faults > obs.faults /\ procs'[i] # procs[i]

\* The entries of the fault history for the call handler i is at
FailedAt(i) ==
  {f \in obs'.failed : /\ f.kind = procs[i].kind
                       /\ f.id = procs[i].doc.id
                       /\ f.pc = procs[i].pc}

\* C21: when the crediting step (the schedule save, the balance save, the
\* save of tokensAdded) or the notification throws inside confirm-payment or
\* check-status, the stored status stays succeeded and the endpoint answers
\* with its success envelope.
C21_SuccessSurvives ==
  [][\A i \in Procs :
       (/\ procs[i].kind \in {"confirm", "check"}
        /\ procs[i].pc \in {"schedSave", "balSave", "paySave", "notify"}
        /\ Throws(i)) =>
         /\ payments'[procs[i].doc.id].status = "succeeded"
         /\ FailedAt(i) # {}
         /\ \A f \in FailedAt(i) : f.answer = "ok"]_vars

\* C21 witness: the balance save failed inside confirm-payment, which
\* answered success; the record is succeeded and not credited
C21_ConfirmedDespiteError ==
  /\ AllIdle
  /\ \E f \in obs.failed :
       /\ f.kind = "confirm" /\ f.pc = "balSave" /\ f.answer = "ok"
       /\ payments[f.id].status = "succeeded"
       /\ ~payments[f.id].tokensAdded
       /\ credits[f.id] = 0

\* C22: a webhook event that passed verification and was dispatched is
\* answered with the acknowledgment {received: true} also when a save or the
\* crediting step inside its handler throws.
C22_AlwaysAcknowledged ==
  [][\A i \in Procs :
       (procs[i].kind = "hook" /\ Throws(i)) =>
         /\ FailedAt(i) # {}
         /\ \A f \in FailedAt(i) : f.answer = "ok"]_vars

\* C23: the sending of a notification, whether it succeeds or throws, changes
\* no PaymentRecord and no TokenBalance, and the transition it reports is
\* already stored when it is sent: the stored status, tokensAdded and
\* tokensScheduledFor are those the handler has set (tokens added, or a
\* release time), so that a failed notification leaves exactly the state a
\* successful one leaves.
C23_NotificationApart ==
  [][\A i \in Procs :
       (procs[i].pc = "notify" /\ procs'[i] # procs[i]) =>
         LET d == procs[i].doc IN
         /\ payments' = payments
         /\ balances' = balances
         /\ payments[d.id].status = d.status
         /\ payments[d.id].tokensAdded = d.tokensAdded
         /\ payments[d.id].tokensScheduledFor = d.tokensScheduledFor
         /\ d.tokensAdded \/ d.tokensScheduledFor # NoTime]_vars

\* C23 witness: the notification of a credit failed; the record is marked
\* and its tokens are in the balance
C23_CreditedUnnotified ==
  /\ AllIdle
  /\ \E f \in obs.failed :
       /\ f.pc = "notify"
       /\ payments[f.id].status = "succeeded"
       /\ payments[f.id].tokensAdded
       /\ credits[f.id] = 1
       /\ balances[TripleOf(payments[f.id])] = payments[f.id].tokens

\* ------------------------------------------------------------------- C24
\* The internal statuses in which a record is final
TerminalStatuses == {"succeeded", "failed", "canceled", "expired", "refunded"}

\* The provider statuses that denote a completed payment
CompletedStatuses == {"succeeded", "COMPLETED", "CAPTURE_COMPLETED"}

\* The table of the function the latest reply came from
TableOf(name) ==
  CASE name = "mapStripeStatusToDbStatus" -> StripeTable
    [] name = "mapPayPalStatus"           -> PayPalTable
    [] name = "getPreciseDisplayStatus"   -> DisplayTable

\* C24: each of mapStripeStatusToDbStatus, mapPayPalStatus and
\* getPreciseDisplayStatus maps a provider status outside its table to a
\* status that is none of succeeded, failed, canceled, expired and refunded,
\* and maps to succeeded only a provider status that denotes completed
\* payment.
C24_FallbackNotTerminal ==
  reply.of # "none" =>
    /\ reply.status \notin TableOf(reply.of)
          => reply.result \notin TerminalStatuses
    /\ reply.result = "succeeded" => reply.status \in CompletedStatuses

\* C24 witness: a PayPal status of no table was mapped, to incomplete
C24_UnknownMapped ==
  /\ reply.of = "mapPayPalStatus"
  /\ reply.status = "REFUNDED"
  /\ reply.result = "incomplete"

\* ------------------------------------------------------------------- C25
\* C25: once a record's status is failed, canceled or expired, no step
\* changes its status and none writes a balance on its behalf.
C25_TerminalIsFinal ==
  [][\A id \in Pids :
       payments[id].status \in {"failed", "canceled", "expired"}
         => /\ payments'[id].status = payments[id].status
            /\ credits'[id] = credits[id]]_vars

\* ------------------------------------------------------------------- C26
\* C26: a request to a webhook route that carries no verified signature or
\* transmission changes no PaymentRecord and no TokenBalance, on the
\* card-intent route and on the order-capture route.
C26_UnverifiedChangesNothing ==
  [][(/\ reply' # reply
      /\ reply'.of = "webhook"
      /\ ~reply'.verified)
        => payments' = payments /\ balances' = balances]_vars

\* ------------------------------------------------------------------- C27
\* The user's records for a game and location that are not credited and
\* carry a schedule
UncreditedScheduled(t) ==
  {id \in Pids : /\ TripleOf(payments[id]) = t
                 /\ payments[id].tokensScheduledFor # NoTime
                 /\ ~payments[id].tokensAdded}

\* C27: for every balance row GET /me/tokens reports, pendingTokens is the
\* sum of the tokens of the user's records for the row's game and location
\* that are not credited and carry a schedule (0 when there is none); and no
\* record counts as pending once its tokens were added to the balance.
C27_PendingIsUncredited ==
  [][\A i \in Procs :
       procs[i].kind = "tokens" /\ procs'[i].kind = "idle"
         => \A k \in DOMAIN reply'.balances :
              LET row == reply'.balances[k] IN
              /\ row.pendingTokens = TokensOf(UncreditedScheduled(row.triple))
              /\ \A id \in UncreditedScheduled(row.triple) :
                   credits[id] = 0]_vars

\* ------------------------------------------------------------------- C28
\* The handler whose save of the delay branch this step is
Schedules(i) ==
  /\ procs[i].pc = "schedSave" /\ procs'[i] # procs[i]
  /\ obs'.faults = obs.faults

\* C28: the save of the delay branch stores the release time the evaluator
\* gives for the record's location, leaves the record not credited, and
\* writes no TokenBalance.
C28_DelayOnlySchedules ==
  [][\A i \in Procs :
       Schedules(i) =>
         LET id == procs[i].doc.id
             timeRestriction ==
               checkTimeRestriction(payments[id].location, now, tz)
         IN  /\ timeRestriction.shouldDelay
             /\ payments'[id].tokensScheduledFor = timeRestriction.scheduledTime
             /\ ~payments'[id].tokensAdded
             /\ balances' = balances]_vars

\* C28 witness: a succeeded record was scheduled and no balance row exists
C28_ScheduledNoRow ==
  /\ AllIdle
  /\ \E id \in Pids :
       /\ payments[id].status = "succeeded"
       /\ payments[id].tokensScheduledFor # NoTime
       /\ ~payments[id].tokensAdded
       /\ credits[id] = 0
       /\ balances[TripleOf(payments[id])] = NoRow

\* ------------------------------------------------------------------- C29
\* The triggers that run the crediting decision
Triggers == {"confirm", "check", "hook", "fix"}

\* C29: the credit branch of the crediting decision adds the record's tokens
\* to the balance of the record's user, game and location and to no other,
\* and its save on the record leaves the record credited, without a
\* schedule, and every other record as it was.
C29_CreditBranch ==
  [][\A i \in Procs :
       LET p  == procs[i]
           id == p.doc.id
       IN  /\ p.kind \in Triggers /\ procs'[i] # p
           /\ obs'.faults = obs.faults
           => /\ p.pc = "balSave" =>
                   /\ balances' = [balances EXCEPT ![TripleOf(payments[id])] =
                                     Tokens(TripleOf(payments[id]))
                                       + payments[id].tokens]
                   /\ payments' = payments
              /\ p.pc = "paySave" =>
                   /\ payments'[id].tokensAdded
                   /\ payments'[id].tokensScheduledFor = NoTime
                   /\ \A d \in Pids \ {id} : payments'[d] = payments[d]
                   /\ balances' = balances]_vars

\* ------------------------------------------------------------------- C30
\* The record is stored as succeeded and not credited, and the provider
\* reports its intent succeeded
SucceededUncredited(id) ==
  /\ payments[id].status = "succeeded"
  /\ ~payments[id].tokensAdded
  /\ stripe[payments[id].intent].status = "succeeded"

\* The webhook handler as it stands once it has loaded record id for event e
Delivered(e, id) ==
  HookLoaded([StartProc("hook") EXCEPT !.ev = e.type, !.pi = EventObject(e),
                                       !.doc = Load(id)])

\* C30: a trigger that finds a record stored as succeeded and not credited
\* runs the crediting decision for it: the succeeded webhook does not return
\* without it, and confirm-payment, check-status and the sweep end, for such
\* a record, only with the save of the delay branch or of the credit branch.
C30_SucceededIsDecided ==
  /\ [](\A id \in Pids : \A e \in events :
          /\ AllIdle /\ SucceededUncredited(id)
          /\ e.type = "payment_intent.succeeded" /\ e.intent = payments[id].intent
          => Delivered(e, id).pc \in {"schedSave", "balFind"})
  /\ [][\A i \in Procs :
          /\ procs[i].kind \in Triggers /\ procs'[i].kind = "idle"
          /\ procs[i].doc.id \in Pids
          /\ SucceededUncredited(procs[i].doc.id)
          => procs[i].pc \in {"schedSave", "paySave"}]_vars

\* ------------------------------------------------------------------- C31
\* C31: a create-payment-intent call that found a recent record whose intent
\* the provider no longer reports valid does not answer with that record:
\* it stores the record as expired, goes on to create an intent, and
\* answers with one new record that carries an intent no other record has.
C31_StaleIsReplaced ==
  [][\A i \in Procs :
       LET p == procs[i] IN
       /\ (/\ p.pc = "retrieveExisting" /\ procs'[i] # p
           /\ ~IntentValid(p.doc.id))
            => /\ procs'[i].pc = "expireSave"
               /\ lastCreate' = lastCreate
       /\ (p.pc = "expireSave" /\ procs'[i] # p)
            => /\ payments'[p.doc.id].status = "expired"
               /\ Len(payments') = Len(payments)
               /\ procs'[i].pc = "createIntent"
       /\ (p.pc = "recordSave" /\ Responds(i))
            => /\ Len(payments') = Len(payments) + 1
               /\ \A id \in Pids :
                    /\ payments'[id] = payments[id]
                    /\ payments[id].intent # payments'[Len(payments')].intent
               /\ lastCreate' = [pid |-> Len(payments'), reused |-> FALSE]]_vars

\* C31 witness: the latest call answered with a new record while an earlier
\* record of the same purchase, created within the window, is expired and
\* its intent is no longer valid at the provider
C31_StaleExpired ==
  /\ AllIdle
  /\ lastCreate.pid # NoPid /\ ~lastCreate.reused
  /\ \E id \in Pids :
       /\ id < lastCreate.pid
       /\ payments[id].status = "expired"
       /\ ~IntentValid(id)
       /\ payments[id].pkg = payments[lastCreate.pid].pkg
       /\ payments[id].location = payments[lastCreate.pid].location
       /\ payments[lastCreate.pid].createdAt - payments[id].createdAt
            <= RecencyWindow
       /\ now = payments[lastCreate.pid].createdAt

\* ------------------------------------------------------------------- C32
\* The request names no game, a game that is not active, a package the game
\* does not have, or a location the game does not offer
InvalidPurchase(game, pkg, location) ==
  \/ game \notin DOMAIN GameStatus
  \/ GameStatus[game] # "active"
  \/ pkg \notin DOMAIN TokenPackages
  \/ \A k \in DOMAIN GameLocations :
       GameLocations[k].name = location => ~GameLocations[k].available

\* C32: a purchase request for an unknown game, an inactive game, an invalid
\* package index or an unavailable location is turned down: a request that
\* is turned down changes no PaymentRecord and no TokenBalance, and no
\* PaymentRecord is ever created for such a purchase.
C32_RejectedChangesNothing ==
  [][/\ (reply' # reply /\ reply'.of \in {"create-payment-intent",
                                          "create-order"})
          => payments' = payments /\ balances' = balances
     /\ Len(payments') > Len(payments)
          => LET rec == payments'[Len(payments')]
             IN  ~InvalidPurchase(rec.game, rec.pkg, rec.location)]_vars

\* ------------------------------------------------------------------- C33
\* The minute of the day at which the time restriction of a location ends:
\* the release time it gives a purchase made at 09:30, inside either window
RestrictionEnds(location) ==
  checkTimeRestriction(location, SampleTimes[1], 0).scheduledTime % Day

\* The release job of a location starts on its first record
ReleaseJobStarts(i) ==
  procs[i].kind # "release" /\ procs'[i].kind = "release"

\* C33: the daily release job of a location fires at the hour at which the
\* time restriction of that location ends, in Texas time: 11:00 for Cedar
\* Park, 10:00 for Liberty Hill.
C33_JobsFireAtReleaseHour ==
  [][\A i \in Procs :
       ReleaseJobStarts(i)
         => now % Day = RestrictionEnds(procs'[i].doc.location)]_vars

\* ------------------------------------------------------------------- C34
\* The save of tokensAdded = true of the record threw, after its balance
\* save had succeeded
MarkFailed(id) == \E f \in obs.failed : f.id = id /\ f.pc = "paySave"

\* C34: a record whose balance save succeeded and whose following save of
\* tokensAdded = true failed has, after any later sweeps and triggers, been
\* added to the balance only once.
C34_FailedMarkCountsOnce ==
  \A id \in Pids : MarkFailed(id) => credits[id] <= 1

\* ------------------------------------------------------------------- C35
\* C35: the release time of a scheduled record never moves further into the
\* future: no step replaces a tokensScheduledFor that is set with a later
\* time.
C35_ReleaseNeverLater ==
  [][\A id \in Pids :
       (/\ payments[id].tokensScheduledFor # NoTime
        /\ payments'[id].tokensScheduledFor # NoTime)
         => payments'[id].tokensScheduledFor
              <= payments[id].tokensScheduledFor]_vars

\* ------------------------------------------------------------------- C36
\* Two pending or processing records of one (user, game, token package,
\* location), the later created within the recency window of the earlier
LivePair(a, b) ==
  /\ a < b
  /\ payments[a].user = payments[b].user /\ payments[a].game = payments[b].game
  /\ payments[a].pkg = payments[b].pkg
  /\ payments[a].location = payments[b].location
  /\ payments[a].status \in {"pending", "processing"}
  /\ payments[b].status \in {"pending", "processing"}
  /\ payments[b].createdAt - payments[a].createdAt <= RecencyWindow

\* C36: create-payment-intent calls for the same (user, game, token package,
\* location) that interleave between the lookup of an existing record and
\* the save of the new one leave at most one pending or processing
\* PaymentRecord for that combination.
C36_OnePendingRecord ==
  \A a, b \in Pids : ~LivePair(a, b)

\* ------------------------------------------------------------------- C37
\* The record is pending or processing and was created more than 30 minutes
\* ago
StaleUnpaid(rec) ==
  /\ rec.status \in {"pending", "processing"}
  /\ now - rec.createdAt > 30

\* C37: cleanupExpiredPayments sets the status of the pending or processing
\* records created more than 30 minutes ago to expired and changes nothing
\* else: every other field of those records, every record in another status
\* (succeeded ones in particular), every younger record and every
\* TokenBalance are as before.
C37_CleanupOnlyExpiresStale ==
  [][CleanupExpiredPayments =>
       /\ Len(payments') = Len(payments)
       /\ balances' = balances
       /\ \A id \in Pids :
            IF StaleUnpaid(payments[id])
              THEN payments'[id] = [payments[id] EXCEPT !.status = "expired"]
              ELSE payments'[id] = payments[id]]_vars

\* C37 witness: the cleanup has expired an unpaid record (its intent still
\* awaits a payment method, so no create call expired it) next to a
\* succeeded record that holds a release time and is not credited
C37_CleanedNextToScheduled ==
  \E a, b \in Pids :
    /\ payments[a].status = "expired" /\ IntentValid(a)
    /\ payments[b].status = "succeeded"
    /\ payments[b].tokensScheduledFor # NoTime
    /\ ~payments[b].tokensAdded

\* ------------------------------------------------------------------- C38
\* The number of times node-cron holds the job
Scheduled(job) ==
  Cardinality({k \in DOMAIN cron.jobs : cron.jobs[k] = job})

\* The job the sweep in flight was started by
JobOf(p) == IF p.kind = "fix" THEN "fix" ELSE p.doc.location

\* C38: however many times init() is called, the reconciliation job and the
\* two release jobs are each scheduled exactly once (and none before the
\* first call), and a tick of the clock starts no job's sweep twice.
C38_InitIdempotent ==
  /\ [](\A job \in {"fix", "Cedar Park", "Liberty Hill"} :
          Scheduled(job) = IF cron.calls = 0 THEN 0 ELSE 1)
  /\ [][now' # now =>
          \A i, j \in Procs :
            (/\ i # j
             /\ procs'[i].kind \in {"fix", "release"}
             /\ procs'[j].kind \in {"fix", "release"})
              => JobOf(procs'[i]) # JobOf(procs'[j])]_vars

\* C38 witness: init() has been called more than once, and the tick of
\* 16:00 has started the reconciliation sweep and the Liberty Hill release
\* job, each once
C38_InitTwiceThenTick ==
  /\ cron.calls = MaxInits /\ MaxInits > 1
  /\ now = 16 * 60
  /\ \E i, j \in Procs :
       /\ procs[i].kind = "fix"
       /\ procs[j].kind = "release" /\ procs[j].doc.location = "Liberty Hill"

====
